---------------------------- MODULE Spec2Model ----------------------------
(***************************************************************************)
(* A model of django-template-reports: the placeholder language            *)
(* (template_reports/templating.py, templating/parser.py), the slide-loop  *)
(* planner (office_renderer/loops.py), the table column fill               *)
(* (pptx_renderer/tables.py), the context-key extractor                    *)
(* (office_renderer/context_extractor.py) and the render driver            *)
(* (pptx_renderer/renderer.py).                                            *)
(*                                                                         *)
(* Text is a sequence of tokens.  A token is one punctuation character     *)
(* ("{", "}", ".", "[", " ", ...) or one maximal run of word characters    *)
(* (what the regex \w+ matches), so every regular expression of the source *)
(* is evaluated position by position on the token sequence.                *)
(***************************************************************************)
EXTENDS Naturals, Sequences, FiniteSets, TLC

VARIABLES
    \* process_text (templating.py): one call on one text
    text, context, request_user, check_permissions, errors, output, tpc,
    \* process_loops (office_renderer/loops.py): one call on one presentation
    \* (prs0: the presentation as it was loaded)
    prs, prs0, loop_context, loop_perm_user, lv, slides_to_process,
    loop_errors, lpc,
    \* fill_column_with_list (pptx_renderer/tables.py): one call on one table
    \* (table0: the table before the call) and one list expansion of
    \* process_worksheet (office_renderer/worksheets.py) on one column
    table, table0, src_row, src_col, items, remaining_items, row_cursor,
    fill_result, fpc, column, column0, cell_idx, processed_value_list,
    sheet_result,
    \* extract_context_keys (office_renderer/context_extractor.py) on the
    \* presentation prs0, and the render of the same presentation with the
    \* context key missing_key left out (xi: the next slide of the plan)
    keys, missing_key, render_errors, xi, xpc,
    \* render_pptx (pptx_renderer/renderer.py): one render of one document
    doc, cursor, render_ctx, acc, saves, result, rpc,
    \* process_text_list (templating/list.py): one call on one list of texts,
    \* or one call of process_text in table mode on its first text
    list_items, list_kwargs, list_results, tags_evaluated, list_pc,
    \* the tags of one render in the order of the traversal: those still to
    \* evaluate, those evaluated with their values, and the wall clock
    pending, tag_values, wall_clock

textVars   == <<text, context, request_user, check_permissions, errors, output, tpc>>
loopVars   == <<prs, prs0, loop_context, loop_perm_user, lv, slides_to_process,
                loop_errors, lpc>>
fillVars   == <<table, table0, src_row, src_col, items, remaining_items,
                row_cursor, fill_result, fpc, column, column0, cell_idx,
                processed_value_list, sheet_result>>
extVars    == <<keys, missing_key, render_errors, xi, xpc>>
renderVars == <<doc, cursor, render_ctx, acc, saves, result, rpc>>
listVars   == <<list_items, list_kwargs, list_results, tags_evaluated, list_pc>>
clockVars  == <<pending, tag_values, wall_clock>>
vars       == <<textVars, loopVars, fillVars, extVars, renderVars, listVars, clockVars>>

-----------------------------------------------------------------------------
(* Token strings                                                           *)

Punct == {"{", "}", "[", "]", "(", ")", ".", ",", "=", "|", "$", "%", "#",
          " ", "'", "\"", "@", ":", "/"}

IsWord(t) == t \notin Punct

\* str.strip(): leading and trailing blanks removed
RECURSIVE LStrip(_)
LStrip(s) == IF s # <<>> /\ Head(s) = " " THEN LStrip(Tail(s)) ELSE s

RECURSIVE RStrip(_)
RStrip(s) ==
    IF s # <<>> /\ s[Len(s)] = " " THEN RStrip(SubSeq(s, 1, Len(s) - 1)) ELSE s

Strip(s) == LStrip(RStrip(s))

\* the `in` operator on one character
HasTok(s, t) == \E i \in 1..Len(s) : s[i] = t

\* the first index >= from with s[i] = a and s[i+1] = b, or 0
FindPair(s, a, b, from) ==
    LET hits == {i \in from..(Len(s) - 1) : s[i] = a /\ s[i + 1] = b}
    IN  IF hits = {} THEN 0 ELSE CHOOSE i \in hits : \A j \in hits : i <= j

\* the first index >= from with s[i] = t, or 0
FindTok(s, t, from) ==
    LET hits == {i \in from..Len(s) : s[i] = t}
    IN  IF hits = {} THEN 0 ELSE CHOOSE i \in hits : \A j \in hits : i <= j

\* str.split(sep): the pieces between the separator positions `seps`
RECURSIVE SplitAt(_, _, _)
SplitAt(s, seps, from) ==
    LET later == {i \in seps : i >= from}
    IN  IF later = {}
        THEN <<SubSeq(s, from, Len(s))>>
        ELSE LET i == CHOOSE k \in later : \A j \in later : k <= j
             IN  <<SubSeq(s, from, i - 1)>> \o SplitAt(s, seps, i + 1)

SplitOn(s, t) == SplitAt(s, {i \in 1..Len(s) : s[i] = t}, 1)

\* sep.join(parts)
RECURSIVE Join(_, _)
Join(parts, sep) ==
    IF parts = <<>> THEN <<>>
    ELSE IF Len(parts) = 1 THEN parts[1]
    ELSE parts[1] \o sep \o Join(Tail(parts), sep)

\* the quotes of a quoted literal removed (val[1:-1])
IsQuoted(s) ==
    \/ Len(s) >= 1 /\ s[1] = "\"" /\ s[Len(s)] = "\""
    \/ Len(s) >= 1 /\ s[1] = "'" /\ s[Len(s)] = "'"

Unquote(s) == IF Len(s) >= 2 THEN SubSeq(s, 2, Len(s) - 1) ELSE <<>>

-----------------------------------------------------------------------------
(* Context values: scalars, records ("obj"), mappings ("dict"), lists      *)

None     == [k |-> "none"]
Str(s)   == [k |-> "str", s |-> s]
Int(n)   == [k |-> "int", n |-> n]
Bool(b)  == [k |-> "bool", b |-> b]
List(xs) == [k |-> "list", items |-> xs]
\* a record: its identity (also what its __str__ returns), whether it is a
\* Django model instance (_meta) and its attributes
Obj(id, meta, attrs) == [k |-> "obj", id |-> id, meta |-> meta, attrs |-> attrs]
Dict(m)  == [k |-> "dict", m |-> m]
\* a zero-argument method; `fails` when calling it raises
Method(ret, fails) == [k |-> "method", ret |-> ret, fails |-> fails]

EmptyStr == Str(<<>>)

\* Python's ==, on the values of the model (True == 1, False == 0)
PyEq(a, b) ==
    \/ a = b
    \/ a.k = "bool" /\ b.k = "int" /\ b.n = (IF a.b THEN 1 ELSE 0)
    \/ a.k = "int" /\ b.k = "bool" /\ a.n = (IF b.b THEN 1 ELSE 0)

\* str(value)
RECURSIVE PyStr(_)
PyStr(v) ==
    CASE v.k = "str"  -> v.s
      [] v.k = "int"  -> <<ToString(v.n)>>
      [] v.k = "bool" -> IF v.b THEN <<"True">> ELSE <<"False">>
      [] v.k = "none" -> <<"None">>
      [] v.k = "obj"  -> <<v.id>>
      [] v.k = "list" ->
            <<"[">> \o Join([i \in 1..Len(v.items) |-> PyStr(v.items[i])],
                            <<",", " ">>) \o <<"]">>
      [] OTHER        -> <<"<", v.k, ">">>


\* a date or datetime; strftime copies the literal characters of the format
\* and expands each % directive from the date
Date(id) == [k |-> "date", id |-> id]

Strftime(d, fmt) == [i \in 1..Len(fmt) |-> IF fmt[i] = "%" THEN d.id ELSE fmt[i]]

-----------------------------------------------------------------------------
(* templating.py: the expression evaluator                                 *)

\* attr.split("__") over the attribute names of the model
NameParts(w) ==
    IF w = "cohort__name" THEN <<"cohort", "name">> ELSE <<w>>

\* one lookup of get_nested_attr: dict.get(part) / getattr(obj, part, None),
\* then the zero-argument call of a callable result
GetPart(obj, part) ==
    LET got == CASE obj.k = "dict" ->
                        IF part \in DOMAIN obj.m THEN obj.m[part] ELSE None
                 [] obj.k = "obj" ->
                        IF part \in DOMAIN obj.attrs THEN obj.attrs[part] ELSE None
                 [] OTHER -> None
    IN  IF got.k = "method"
        THEN (IF got.fails THEN None ELSE got.ret)
        ELSE got

RECURSIVE GetParts(_, _)
GetParts(obj, parts) ==
    IF parts = <<>> THEN obj
    ELSE IF obj = None THEN None
    ELSE GetParts(GetPart(obj, Head(parts)), Tail(parts))

get_nested_attr(obj, attr) == GetParts(obj, NameParts(attr))

\* the tokens int() accepts, with their values
IntToks == {"0", "1", "2", "42"}
IntOf(t) == CASE t = "0" -> 0 [] t = "1" -> 1 [] t = "2" -> 2 [] OTHER -> 42

Float(s) == [k |-> "float", s |-> s]

parse_value(val_str) ==
    LET s == Strip(val_str)
    IN  IF s \in {<<"true">>, <<"True">>, <<"TRUE">>} THEN Bool(TRUE)
        ELSE IF s \in {<<"false">>, <<"False">>, <<"FALSE">>} THEN Bool(FALSE)
        ELSE IF Len(s) = 1 /\ s[1] \in IntToks THEN Int(IntOf(s[1]))
        ELSE IF Len(s) = 3 /\ s[1] \in IntToks /\ s[2] = "." /\ s[3] \in IntToks
             THEN Float(s)
        ELSE IF IsQuoted(s) THEN Str(Unquote(s))
        ELSE Str(s)

\* re.match(r"([\w__]+)\s*(==|=)\s*(.+)", condition): the position of the
\* value, or 0 when the condition does not match
CondValuePos(cond) ==
    IF cond = <<>> \/ ~IsWord(cond[1]) THEN 0
    ELSE LET p  == Len(LStrip(SubSeq(cond, 2, Len(cond))))
             eq == Len(cond) - p + 1          \* first non-blank after the name
         IN  IF p = 0 \/ cond[eq] # "=" THEN 0
             ELSE IF eq + 1 <= Len(cond) /\ cond[eq + 1] = "=" /\ eq + 2 <= Len(cond)
                  THEN eq + 2
             ELSE IF eq + 1 <= Len(cond) THEN eq + 1
             ELSE 0

evaluate_condition(item, condition) ==
    LET p == CondValuePos(condition)
    IN  IF p = 0 THEN FALSE
        ELSE PyEq(get_nested_attr(item, condition[1]),
                  parse_value(SubSeq(condition, p, Len(condition))))

\* the positions of the dots re.split(r"\.(?![^\[]*\])", expr) splits on:
\* a dot is kept when a "]" follows it with no "[" in between
SplitDots(expr) ==
    {i \in 1..Len(expr) :
        /\ expr[i] = "."
        /\ ~\E j \in (i + 1)..Len(expr) :
              /\ expr[j] = "]"
              /\ \A m \in (i + 1)..(j - 1) : expr[m] # "["}

split_expression(expr) == SplitAt(expr, SplitDots(expr), 1)

\* re.match(r"(\w+(?:__\w+)*)(\[(.*?)\])?$", segment)
SegmentMatches(segment) ==
    /\ segment # <<>>
    /\ IsWord(segment[1])
    /\ \/ Len(segment) = 1
       \/ Len(segment) >= 3 /\ segment[2] = "[" /\ segment[Len(segment)] = "]"

SegmentFilter(segment) ==
    IF Len(segment) >= 3 THEN SubSeq(segment, 3, Len(segment) - 1) ELSE <<>>

\* [cond.strip() for cond in filter_expr.split(",")]
Conditions(filter_expr) ==
    LET parts == SplitOn(filter_expr, ",")
    IN  [i \in 1..Len(parts) |-> Strip(parts[i])]

FilterItems(xs, conds) ==
    SelectSeq(xs, LAMBDA item :
                    \A i \in 1..Len(conds) : evaluate_condition(item, conds[i]))

\* resolve_segment of templating.py: None when the segment does not parse
FilteredOld(values, filter_expr) ==
    IF filter_expr # <<>>
    THEN List(FilterItems(IF values.k = "list" THEN values.items ELSE <<values>>,
                          Conditions(filter_expr)))
    ELSE values

resolve_segment_old(current, segment) ==
    IF ~SegmentMatches(segment) THEN None
    ELSE FilteredOld(IF current.k = "list"
                     THEN List([i \in 1..Len(current.items) |->
                                  get_nested_attr(current.items[i], segment[1])])
                     ELSE get_nested_attr(current, segment[1]),
                     SegmentFilter(segment))

RECURSIVE WalkSegmentsOld(_, _)
WalkOnOld(nxt, segs) ==
    IF nxt = None THEN EmptyStr ELSE WalkSegmentsOld(nxt, segs)

WalkSegmentsOld(current, segs) ==
    IF segs = <<>> THEN current
    ELSE WalkOnOld(resolve_segment_old(current, Head(segs)), Tail(segs))

\* context.get(key): the key is the whole first segment
ContextGet(ctx, seg) ==
    IF Len(seg) = 1 /\ seg[1] \in DOMAIN ctx THEN ctx[seg[1]] ELSE None

\* resolve_tag_expression of templating.py
ResolveSegmentsOld(segments, ctx) ==
    IF ContextGet(ctx, segments[1]) = None THEN EmptyStr
    ELSE WalkSegmentsOld(ContextGet(ctx, segments[1]), Tail(segments))

resolve_tag_expression_old(expr, ctx) ==
    ResolveSegmentsOld(split_expression(expr), ctx)

\* a principal: the ids of the records it may not view
NoUser == [k |-> "nouser"]
User(denied) == [k |-> "user", denied |-> denied]
has_perm(user, obj) == obj.id \notin user.denied

has_view_permission(obj, user) ==
    IF ~(obj.k = "obj" /\ obj.meta) THEN TRUE ELSE has_perm(user, obj)

-----------------------------------------------------------------------------
(* templating.py: process_text                                             *)

\* what one call of `replacer` returns and appends to `errors`
Replaced(out, errs) == [out |-> out, errs |-> errs]

\* the value of the tag before the permission check (lines 155-178)
FormattedOld(value, fmt0) ==
    IF value.k = "date"
    THEN Str(Strftime(value, IF IsQuoted(fmt0) THEN Unquote(fmt0) ELSE fmt0))
    ELSE Str(PyStr(value))

TagValue(raw_expr, ctx) ==
    IF HasTok(raw_expr, "|")
    THEN FormattedOld(
             resolve_tag_expression_old(
                 Strip(SubSeq(raw_expr, 1, FindTok(raw_expr, "|", 1) - 1)), ctx),
             Strip(SubSeq(raw_expr, FindTok(raw_expr, "|", 1) + 1, Len(raw_expr))))
    ELSE resolve_tag_expression_old(raw_expr, ctx)

\* [item for item in value if has_view_permission(item, request_user)]
Permitted(xs, user) == SelectSeq(xs, LAMBDA item : has_view_permission(item, user))

\* Rendered, without the record of an empty value
Rendered_Silent(raw_expr, value) ==
    IF value = EmptyStr \/ value = None
    THEN Replaced(<<>>, <<>>)
    ELSE Replaced(PyStr(value), <<>>)

\* lines 196-202: the text that replaces the placeholder
Rendered(raw_expr, value) ==
    IF value = EmptyStr \/ value = None
    THEN Replaced(<<>>, <<raw_expr>>)
    ELSE IF value.k = "list"
    THEN LET kept == SelectSeq(value.items, LAMBDA item : item # None)
         IN  Replaced(Join([i \in 1..Len(kept) |-> PyStr(kept[i])], <<",", " ">>),
                      <<>>)
    ELSE Replaced(PyStr(value), <<>>)

\* Checked, with a null principal taken for one that may view no record
Checked_NullDenied(raw_expr, value, user, chk) ==
    IF chk /\ user = NoUser
    THEN IF value.k = "list"
         THEN IF SelectSeq(value.items,
                           LAMBDA item : ~(item.k = "obj" /\ item.meta)) = <<>>
              THEN Replaced(<<>>, <<raw_expr>>)
              ELSE Rendered(raw_expr,
                            List(SelectSeq(value.items,
                                 LAMBDA item : ~(item.k = "obj" /\ item.meta))))
         ELSE IF value.k = "obj" /\ value.meta
              THEN Replaced(<<>>, <<raw_expr>>)
              ELSE Rendered(raw_expr, value)
    ELSE IF chk
    THEN IF value.k = "list"
         THEN IF Permitted(value.items, user) = <<>>
              THEN Replaced(<<>>, <<raw_expr>>)
              ELSE Rendered(raw_expr, List(Permitted(value.items, user)))
         ELSE IF ~has_view_permission(value, user)
              THEN Replaced(<<>>, <<raw_expr>>)
              ELSE Rendered(raw_expr, value)
    ELSE Rendered(raw_expr, value)

\* lines 180-202, on the value of the tag
Checked(raw_expr, value, user, chk) ==
    IF chk /\ user # NoUser
    THEN IF value.k = "list"
         THEN IF Permitted(value.items, user) = <<>>
              THEN Replaced(<<>>, <<raw_expr>>)
              ELSE Rendered(raw_expr, List(Permitted(value.items, user)))
         ELSE IF ~has_view_permission(value, user)
              THEN Replaced(<<>>, <<raw_expr>>)
              ELSE Rendered(raw_expr, value)
    ELSE Rendered(raw_expr, value)

replacer(raw_expr, ctx, user, chk) ==
    Checked(raw_expr, TagValue(raw_expr, ctx), user, chk)

\* re.sub(r"\{\{(.*?)\}\}", replacer, text) from position `from`: the
\* leftmost "{{" that has a "}}" after it, up to the first such "}}"
Spliced(literal, r, rest) ==
    Replaced(literal \o r.out \o rest.out, r.errs \o rest.errs)

RECURSIVE SubFrom(_, _, _, _, _)
SubFrom(t, from, ctx, user, chk) ==
    IF FindPair(t, "{", "{", from) = 0
          \/ FindPair(t, "}", "}", FindPair(t, "{", "{", from) + 2) = 0
    THEN Replaced(SubSeq(t, from, Len(t)), <<>>)
    ELSE Spliced(SubSeq(t, from, FindPair(t, "{", "{", from) - 1),
                 replacer(Strip(SubSeq(t, FindPair(t, "{", "{", from) + 2,
                                       FindPair(t, "}", "}",
                                                FindPair(t, "{", "{", from) + 2) - 1)),
                          ctx, user, chk),
                 SubFrom(t, FindPair(t, "}", "}", FindPair(t, "{", "{", from) + 2) + 2,
                         ctx, user, chk))

\* process_text on the text without the blanks around it
process_text_Stripped(t, ctx, user, chk) == SubFrom(Strip(t), 1, ctx, user, chk)

process_text(t, ctx, user, chk) == SubFrom(t, 1, ctx, user, chk)

-----------------------------------------------------------------------------
(* The contexts and texts the evaluator is run on                          *)

Email(w) == Str(<<w, "@", "x">>)

Alice == Obj("Alice", TRUE,
             [name |-> Str(<<"Alice">>), email |-> Email("alice"),
              is_active |-> Bool(TRUE)])
Bob   == Obj("Bob", TRUE,
             [name |-> Str(<<"Bob">>), email |-> Email("bob"),
              is_active |-> Bool(TRUE)])
DenyUser == Obj("DenyUser", TRUE,
             [name |-> Str(<<"DenyUser">>), email |-> Email("deny"),
              is_active |-> Bool(FALSE)])

Users == <<Alice, Bob, DenyUser>>

Program == Dict([name |-> Str(<<"Test", " ", "Program">>), users |-> List(Users)])

\* the context of tests/test_templating.py (setUp), with a null and an empty
\* value added
FullContext ==
    [user |-> Alice, program |-> Program, date |-> Date("d1"),
     count |-> Int(42), blank |-> EmptyStr, nothing |-> None]

Contexts == {FullContext, [user |-> Bob, count |-> Int(1)]}

\* DummyRequestUser denies the records whose name contains "deny";
\* DenyAllUser denies every record
Principals == {NoUser, User({"DenyUser"}), User({"Alice", "Bob", "DenyUser"})}

Tag(body) == <<"{", "{", " ">> \o body \o <<" ", "}", "}">>

Pieces ==
    { <<"Hello", ",", " ">>,
      Tag(<<"user", ".", "name">>),
      Tag(<<"program", ".", "users", ".", "email">>),
      Tag(<<"program", ".", "users">>),
      Tag(<<"program", ".", "users", "[", "is_active", "=", "true", "]", ".", "email">>),
      Tag(<<"date", " ", "|", " ", "%", "Y">>),
      Tag(<<"count">>),
      <<"{", "{", " ", " ", " ", "}", "}">>,
      Tag(<<"blank">>),
      Tag(<<"nothing">>),
      Tag(<<"non_existent">>),
      Tag(<<"ghost", ".", "name">>),
      <<"{", "{", " ", "user">> }

\* the number of pieces a text is made of
MaxPieces == 2

RECURSIVE TextsOf(_)
TextsOf(n) ==
    IF n = 0 THEN {<<>>}
    ELSE LET shorter == TextsOf(n - 1)
         IN  shorter \cup {t \o p : t \in shorter, p \in Pieces}

Texts == TextsOf(MaxPieces)

-----------------------------------------------------------------------------
(* process_text, one placeholder at a time                                 *)

\* the next match of \{\{(.*?)\}\} at or after `from`: 0 when there is none
MatchOpen(t, from) == FindPair(t, "{", "{", from)
MatchClose(t, from) ==
    IF MatchOpen(t, from) = 0 THEN 0
    ELSE FindPair(t, "}", "}", MatchOpen(t, from) + 2)
RawExpr(t, from) == Strip(SubSeq(t, MatchOpen(t, from) + 2, MatchClose(t, from) - 1))
Literal(t, from) == SubSeq(t, from, MatchOpen(t, from) - 1)

IdleText ==
    /\ text = <<>> /\ context = FullContext /\ request_user = NoUser
    /\ check_permissions = FALSE /\ errors = <<>> /\ output = <<>> /\ tpc = 0

TextInit ==
    /\ text \in Texts
    /\ context \in Contexts
    /\ request_user \in Principals
    /\ check_permissions \in BOOLEAN
    /\ errors = <<>>
    /\ output = <<>>
    /\ tpc = 1

\* one call of `replacer` by re.sub
Replace ==
    /\ tpc # 0
    /\ MatchClose(text, tpc) # 0
    /\ \E r \in {replacer(RawExpr(text, tpc), context, request_user,
                          check_permissions)} :
           /\ output' = output \o Literal(text, tpc) \o r.out
           /\ errors' = errors \o r.errs
    /\ tpc' = MatchClose(text, tpc) + 2
    /\ UNCHANGED <<text, context, request_user, check_permissions>>

\* no match is left: re.sub copies the rest of the text and returns
ReturnText ==
    /\ tpc # 0
    /\ MatchClose(text, tpc) = 0
    /\ output' = output \o SubSeq(text, tpc, Len(text))
    /\ tpc' = 0
    /\ UNCHANGED <<text, context, request_user, check_permissions, errors>>

-----------------------------------------------------------------------------
(* templating/parser.py: the expression evaluator with calls, queryable    *)
(* collections, sub-expressions and typed errors                           *)

\* a raised exception, as the result of an evaluation
Exc(type) == [k |-> "exc", type |-> type]
IsExc(v) == v.k = "exc"

\* a queryable collection: it has filter(**kwargs) and all()
QuerySet(xs) == [k |-> "queryset", items |-> xs]

\* datetime.datetime.now() read when the clock shows t
Reading(t) == <<"t0", "t1", "t2", "t3", "t4", "t5">>[t + 1]

NowAt(t) == [k |-> "date", id |-> Reading(t), t |-> t]

Count(s, t) == Cardinality({i \in 1..Len(s) : s[i] = t})

\* re.match(r"^(\w+(?:__\w+)*)(?:\((.*?)\))?(?:\[(.*?)\])?$", segment):
\* the index of the ")" that closes the arguments (0: no arguments) ...
ArgsClose(segment) ==
    IF Len(segment) < 3 \/ segment[2] # "(" THEN 0
    ELSE LET ok == {c \in 3..Len(segment) :
                      /\ segment[c] = ")"
                      /\ \/ c = Len(segment)
                         \/ /\ c + 2 <= Len(segment)
                            /\ segment[c + 1] = "["
                            /\ segment[Len(segment)] = "]"}
         IN  IF ok = {} THEN 0 ELSE CHOOSE c \in ok : \A e \in ok : c <= e

\* ... and whether the segment matches at all
SegmentParses(segment) ==
    /\ segment # <<>>
    /\ IsWord(segment[1])
    /\ \/ Len(segment) = 1
       \/ ArgsClose(segment) # 0
       \/ Len(segment) >= 3 /\ segment[2] = "[" /\ segment[Len(segment)] = "]"

HasCall(segment) == ArgsClose(segment) # 0
CallArgs(segment) == SubSeq(segment, 3, ArgsClose(segment) - 1)

\* group 3: the text between the "[" after the name or the arguments and
\* the last "]"; <<>> also when there is no filter
FilterExpr(segment) ==
    LET open == IF HasCall(segment) THEN ArgsClose(segment) + 1 ELSE 2
    IN  IF open + 1 <= Len(segment) /\ segment[open] = "["
        THEN SubSeq(segment, open + 1, Len(segment) - 1)
        ELSE <<>>

\* the conditions of the filter(**filter_dict) call of lines 250-261: the
\* key and the unquoted text of each condition that matches
\* ([\w__]+)\s*=\s*(.+); the value stays a string
FilterDict(filter_expr) ==
    LET conds == Conditions(filter_expr)
        Eq(c) == Len(c) - Len(LStrip(SubSeq(c, 2, Len(c)))) + 1
        Matches(c) == /\ c # <<>> /\ IsWord(c[1])
                      /\ Eq(c) < Len(c) /\ c[Eq(c)] = "="
        Val(c) == LET v == Strip(SubSeq(c, Eq(c) + 1, Len(c)))
                  IN  IF IsQuoted(v) THEN Unquote(v) ELSE v
    IN  [i \in {j \in 1..Len(conds) : Matches(conds[j])} |->
            [key |-> conds[i][1], val |-> Str(Val(conds[i]))]]

\* DummyQuerySet.filter: getattr along the __ chain, compared with !=
RECURSIVE GetattrChain(_, _)
GetattrChain(obj, parts) ==
    IF parts = <<>> \/ obj = None THEN obj
    ELSE GetattrChain(IF obj.k = "obj" /\ Head(parts) \in DOMAIN obj.attrs
                      THEN obj.attrs[Head(parts)] ELSE None,
                      Tail(parts))

QuerySetFilter(xs, filter_dict) ==
    SelectSeq(xs, LAMBDA item :
        \A i \in DOMAIN filter_dict :
            PyEq(GetattrChain(item, NameParts(filter_dict[i].key)),
                 filter_dict[i].val))

\* permissions.enforce_permissions: raises when the principal may not view
enforce_permissions(value_item, perm_user) ==
    perm_user = NoUser \/ has_view_permission(value_item, perm_user)

\* resolver.parse_callable_args: the comma-separated literals
parse_callable_args(args_str) ==
    IF Strip(args_str) = <<>> THEN <<>>
    ELSE LET parts == SplitOn(args_str, ",")
         IN  [i \in 1..Len(parts) |-> parse_value(parts[i])]

\* the results of a list of evaluations: the first exception, or the
\* results with the lists among them flattened one level
RECURSIVE Flatten(_)
Flatten(rs) ==
    IF rs = <<>> THEN List(<<>>)
    ELSE IF IsExc(Head(rs)) THEN Head(rs)
    ELSE LET rest == Flatten(Tail(rs))
         IN  IF IsExc(rest) THEN rest
             ELSE IF Head(rs).k = "list" THEN List(Head(rs).items \o rest.items)
             ELSE List(<<Head(rs)>> \o rest.items)

\* resolver.get_nested_attr as parser.py uses it: the attribute along the
\* __ chain, returned uncalled; an absent key of a mapping gives None
\* (obj.get(part); tests/test_templating.py test_missing_key_in_context),
\* an absent attribute of an object raises AttributeError
RECURSIVE Fetch(_, _)
Fetch(obj, parts) ==
    IF parts = <<>> \/ obj = None THEN obj
    ELSE LET part == Head(parts)
             got  == CASE obj.k = "dict" ->
                              IF part \in DOMAIN obj.m THEN obj.m[part]
                              ELSE None
                       [] obj.k = "obj" ->
                              IF part \in DOMAIN obj.attrs THEN obj.attrs[part]
                              ELSE Exc("MissingData")
                       [] OTHER -> Exc("MissingData")
         IN  IF IsExc(got) THEN got
             ELSE IF Tail(parts) # <<>> /\ got.k = "method"
             THEN Fetch(IF got.fails THEN None ELSE got.ret, Tail(parts))
             ELSE Fetch(got, Tail(parts))

\* lines 236-245: the call; without parentheses a zero-argument method is
\* invoked by the attribute resolver, a failure giving None
Called(got, segment) ==
    IF ~HasCall(segment)
    THEN (IF got.k = "method"
          THEN (IF got.fails THEN None ELSE got.ret)
          ELSE got)
    ELSE IF got.k # "method" THEN Exc("TagCallable")
    ELSE IF got.fails THEN Exc("TagCallable")
    ELSE got.ret

\* lines 247-280: the filter and the permission check on the value
Filtered(value, filter_expr, perm_user) ==
    IF IsExc(value) THEN value
    ELSE IF value.k = "queryset"
    THEN IF filter_expr # <<>>
         THEN List(QuerySetFilter(value.items, FilterDict(filter_expr)))
         ELSE List(value.items)
    ELSE LET value_list == IF value.k = "list" THEN value.items ELSE <<value>>
         IN  IF \E i \in 1..Len(value_list) :
                    ~enforce_permissions(value_list[i], perm_user)
             THEN Exc("PermissionDenied")
             ELSE IF filter_expr # <<>>
             THEN List(FilterItems(value_list, Conditions(filter_expr)))
             ELSE value

\* lines 229-280, on the attribute that was fetched
Resolved(got, segment, perm_user) ==
    IF IsExc(got) THEN got
    ELSE Filtered(Called(got, segment), FilterExpr(segment), perm_user)

RECURSIVE resolve_segment(_, _, _)
resolve_segment(current, segment, perm_user) ==
    IF Count(segment, "(") # Count(segment, ")") THEN Exc("BadTag")
    ELSE IF Count(segment, "[") # Count(segment, "]") THEN Exc("BadTag")
    ELSE IF ~SegmentParses(segment) THEN Exc("BadTag")
    ELSE IF current.k = "list"
    THEN Flatten([i \in 1..Len(current.items) |->
                    resolve_segment(current.items[i], segment, perm_user)])
    ELSE Resolved(Fetch(current, NameParts(segment[1])), segment, perm_user)

\* lines 147-151: the segments one after the other
RECURSIVE WalkSegments(_, _, _)
RECURSIVE WalkOn(_, _, _)
WalkOn(nxt, segs, perm_user) ==
    IF IsExc(nxt) THEN nxt
    ELSE IF nxt = None THEN EmptyStr
    ELSE WalkSegments(nxt, segs, perm_user)

WalkSegments(current, segs, perm_user) ==
    IF segs = <<>> THEN current
    ELSE WalkOn(resolve_segment(current, Head(segs), perm_user), Tail(segs),
                perm_user)

\* BAD_SEGMENT_PATTERN = ^[#%]*$
BadSegment(seg) == \A i \in 1..Len(seg) : seg[i] \in {"#", "%"}

\* lines 134-151, on the segments of the expression
ResolveSegments(segments, ctx, perm_user, clock) ==
    IF segments[1] = <<>> THEN EmptyStr
    ELSE IF \E i \in 1..Len(segments) : BadSegment(segments[i])
    THEN Exc("BadTag")
    ELSE IF Strip(segments[1]) = <<"now">> THEN NowAt(clock)
    ELSE WalkSegments(Dict(ctx), segments, perm_user)

\* resolve_tag_expression of parser.py; `clock` is what datetime.now()
\* returns at the time of the call
resolve_tag_expression(expr, ctx, perm_user, clock) ==
    ResolveSegments(split_expression(expr), ctx, perm_user, clock)

\* formatting.convert_format: the table of the format translator
ConvertToken(t) ==
    CASE t = "YYYY" -> <<"%", "Y">> [] t = "YY" -> <<"%", "y">>
      [] t = "MMMM" -> <<"%", "B">> [] t = "MMM" -> <<"%", "b">>
      [] t = "MM" -> <<"%", "m">>   [] t = "DD" -> <<"%", "d">>
      [] t = "dd" -> <<"%", "d">>   [] t = "HH" -> <<"%", "H">>
      [] t = "hh" -> <<"%", "I">>   [] t = "mm" -> <<"%", "M">>
      [] t = "ss" -> <<"%", "S">>   [] t = "A" -> <<"%", "p">>
      [] OTHER -> <<t>>

RECURSIVE convert_format(_)
convert_format(fmt) ==
    IF fmt = <<>> THEN <<>> ELSE ConvertToken(Head(fmt)) \o convert_format(Tail(fmt))

\* lines 53-62: the expression before the pipe, and the format after it
ValueExpr(expr) ==
    IF FindTok(expr, "|", 1) = 0 THEN Strip(expr)
    ELSE Strip(SubSeq(expr, 1, FindTok(expr, "|", 1) - 1))

FmtStr(expr) ==
    LET fmt0 == IF FindTok(expr, "|", 1) = 0 THEN <<>>
                ELSE Strip(SubSeq(expr, FindTok(expr, "|", 1) + 1, Len(expr)))
    IN  IF IsQuoted(fmt0) THEN Unquote(fmt0) ELSE fmt0

\* lines 67-74
Formatted(value, fmt_str) ==
    IF IsExc(value) THEN value
    ELSE IF fmt_str # <<>> /\ value.k = "date"
    THEN Str(Strftime(value, convert_format(fmt_str)))
    ELSE value

\* lines 47-74, on the expression with its sub-tags replaced
ParseSubstituted(sub, ctx, perm_user, clock) ==
    IF IsExc(sub) THEN sub
    ELSE IF HasTok(sub.s, "{") \/ HasTok(sub.s, "}") THEN Exc("BadTag")
    ELSE Formatted(resolve_tag_expression(ValueExpr(sub.s), ctx, perm_user, clock),
                   FmtStr(sub.s))

\* the matches of \$(.*?)\$ from position `from`, left to right: one pass
RECURSIVE parse_formatted_tag(_, _, _, _)
RECURSIVE SubInner(_, _, _, _, _)
SubInner(expr, from, ctx, perm_user, clock) ==
    LET open  == FindTok(expr, "$", from)
        close == IF open = 0 THEN 0 ELSE FindTok(expr, "$", open + 1)
    IN  IF close = 0 THEN Str(SubSeq(expr, from, Len(expr)))
        ELSE LET resolved == parse_formatted_tag(
                                 Strip(SubSeq(expr, open + 1, close - 1)),
                                 ctx, perm_user, clock)
                 rest == SubInner(expr, close + 1, ctx, perm_user, clock)
             IN  IF IsExc(resolved) THEN resolved
                 ELSE IF IsExc(rest) THEN rest
                 ELSE Str(SubSeq(expr, from, open - 1) \o PyStr(resolved) \o rest.s)

substitute_inner_tags(expr, ctx, perm_user, clock) ==
    SubInner(expr, 1, ctx, perm_user, clock)

parse_formatted_tag(expr, ctx, perm_user, clock) ==
    ParseSubstituted(substitute_inner_tags(expr, ctx, perm_user, clock),
                     ctx, perm_user, clock)

\* templating.resolve_tag: the evaluator entry point the loop processor uses
resolve_tag(expr, ctx, perm_user, clock) ==
    parse_formatted_tag(expr, ctx, perm_user, clock)

-----------------------------------------------------------------------------
(* office_renderer/loops.py: the loop directives and the slide plan        *)

\* LOOP_START_PATTERN.search(text.strip()): the position of the first
\* "%loop <ident> in <expr>%", or 0
LoopStartAt(t) ==
    LET hits == {i \in 1..Len(t) :
                   /\ i + 8 <= Len(t)
                   /\ t[i] = "%" /\ t[i + 1] = "loop" /\ t[i + 2] = " "
                   /\ IsWord(t[i + 3]) /\ t[i + 4] = " "
                   /\ t[i + 5] = "in" /\ t[i + 6] = " "
                   /\ FindTok(t, "%", i + 8) # 0}
    IN  IF hits = {} THEN 0 ELSE CHOOSE i \in hits : \A j \in hits : i <= j

\* (variable, collection) of the directive, None when there is none
extract_loop_directive(shape_text) ==
    LET t == Strip(shape_text)
        i == LoopStartAt(t)
    IN  IF i = 0 THEN None
        ELSE [k |-> "directive",
              variable   |-> t[i + 3],
              collection |-> SubSeq(t, i + 7, FindTok(t, "%", i + 8) - 1)]

is_loop_start(shape) == extract_loop_directive(shape) # None

\* LOOP_END_PATTERN.search(text.strip())
is_loop_end(shape) ==
    \E i \in 1..(Len(shape) - 2) :
        shape[i] = "%" /\ shape[i + 1] = "endloop" /\ shape[i + 2] = "%"

\* the keys of a mapping, as list(mapping) gives them
RECURSIVE Listed(_)
Listed(ks) ==
    IF ks = {} THEN <<>>
    ELSE LET key == CHOOSE x \in ks : TRUE
         IN  <<Str(<<key>>)>> \o Listed(ks \ {key})

\* list(collection): the items, or a TypeError for what cannot be iterated
ToList(v) ==
    CASE v.k = "list" -> List(v.items)
      [] v.k = "queryset" -> List(v.items)
      [] v.k = "str" -> List([i \in 1..Len(v.s) |-> Str(<<v.s[i]>>)])
      [] v.k = "dict" -> List(Listed(DOMAIN v.m))
      [] OTHER -> Exc("TypeError")

\* what get_collection_from_collection_tag returns: the collection and no
\* error, or no collection and the error
Collected(collection, error) == [collection |-> collection, error |-> error]

\* lines 78-92, with an empty collection taken as it is
AsCollection_EmptyAllowed(collection) ==
    IF IsExc(collection) THEN Collected(<<>>, "Failed to resolve collection")
    ELSE IF collection = None THEN Collected(<<>>, "not found in context")
    ELSE IF IsExc(ToList(collection))
    THEN Collected(<<>>, "is not a collection of things")
    ELSE Collected(ToList(collection).items, "")

\* lines 78-92, on the value of the collection tag
AsCollection(collection) ==
    IF IsExc(collection) THEN Collected(<<>>, "Failed to resolve collection")
    ELSE IF collection = None THEN Collected(<<>>, "not found in context")
    ELSE IF IsExc(ToList(collection))
    THEN Collected(<<>>, "is not a collection of things")
    ELSE IF ToList(collection).items = <<>> THEN Collected(<<>>, "is empty")
    ELSE Collected(ToList(collection).items, "")

get_collection_from_collection_tag(collection_tag, ctx, user, clock) ==
    AsCollection(resolve_tag(collection_tag, ctx, user, clock))

\* a slide of the presentation: its identity, the texts of its shapes and
\* the slide it was duplicated from (0: a slide of the template)
Slide(id, shapes, copy_of) == [id |-> id, shapes |-> shapes, copy_of |-> copy_of]

\* pptx_utils.remove_shape: the shapes of the slide without the i-th
RemoveAt(shapes, i) ==
    SubSeq(shapes, 1, i - 1) \o SubSeq(shapes, i + 1, Len(shapes))

\* an error message of process_loops with the slide it is about
SlideError(i, msg) == [slide |-> i, msg |-> msg]

\* lines 119-145: a shape that is a loop start, with its directive and the
\* collection it names
LoopStartSeen(st, n, i, dir, got) ==
    LET removed == [st EXCEPT !.starts = @ + 1, !.removed = @ \cup {n}]
    IN  IF removed.starts > 1
        THEN [removed EXCEPT
                !.errs = Append(@, SlideError(i,
                    "Multiple loop start directives on same slide")),
                !.abort = TRUE]
        ELSE IF got.error # ""
        THEN [removed EXCEPT
                !.loop_variable_name = dir.variable,
                !.has_loop_start = TRUE,
                !.evaluated = @ + 1,
                !.errs = Append(@, SlideError(i, got.error)),
                !.abort = TRUE]
        ELSE [removed EXCEPT
                !.loop_variable_name = dir.variable,
                !.has_loop_start = TRUE,
                !.evaluated = @ + 1,
                !.loop_collection = got.collection]

\* lines 148-164: a shape that is a loop end
LoopEndSeen(st, n, i, in_loop) ==
    LET removed == [st EXCEPT !.ends = @ + 1, !.removed = @ \cup {n}]
    IN  IF removed.ends > 1
        THEN [removed EXCEPT
                !.errs = Append(@, SlideError(i,
                    "Multiple loop end directives on same slide")),
                !.abort = TRUE]
        ELSE IF ~in_loop /\ ~removed.has_loop_start
        THEN [removed EXCEPT
                !.errs = Append(@, SlideError(i,
                    "%endloop% without a matching loop start")),
                !.has_loop_end = TRUE]
        ELSE [removed EXCEPT !.has_loop_end = TRUE]

StartChecked(st, shape, n, i, ctx, user) ==
    IF ~is_loop_start(shape) THEN st
    ELSE LoopStartSeen(st, n, i, extract_loop_directive(shape),
                       get_collection_from_collection_tag(
                           extract_loop_directive(shape).collection, ctx, user, 0))

EndChecked(st, shape, n, i, in_loop) ==
    IF st.abort \/ ~is_loop_end(shape) THEN st
    ELSE LoopEndSeen(st, n, i, in_loop)

\* lines 117-164: the shapes of one slide from the n-th on; `st` holds the
\* shapes that were removed, the flags, the counts and the outcome so far
RECURSIVE ScanShapes(_, _, _, _, _, _, _)
ScanShapes(shapes, n, st, i, in_loop, ctx, user) ==
    IF n > Len(shapes) \/ st.abort THEN st
    ELSE ScanShapes(shapes, n + 1,
                    EndChecked(StartChecked(st, shapes[n], n, i, ctx, user),
                               shapes[n], n, i, in_loop),
                    i, in_loop, ctx, user)

\* the shapes left on the slide
Kept(shapes, removed) ==
    LET left == SelectSeq([n \in 1..Len(shapes) |-> [n |-> n, shape |-> shapes[n]]],
                          LAMBDA e : e.n \notin removed)
    IN  [m \in 1..Len(left) |-> left[m].shape]

\* the sections of the first pass
PlainSection(slide_id) == [slides |-> <<slide_id>>]
LoopSection(slide_ids, var, coll) ==
    [slides |-> slide_ids, loop_variable_name |-> var, loop_collection |-> coll]
IsLoopSection(section) == "loop_variable_name" \in DOMAIN section

\* the locals of process_loops before the first slide, and the number of
\* calls of get_collection_from_collection_tag made so far
Locals0 ==
    [i |-> 1, in_loop |-> FALSE, loop_variable_name |-> "",
     loop_collection |-> <<>>, loop_slides |-> <<>>, slide_sections |-> <<>>,
     section |-> 1, current_slide_number |-> 1, collections_evaluated |-> 0]

\* pptx_utils.duplicate_slide(prs, slide, index): a copy of the slide, with
\* a new identity, inserted so that `index` slides stand before it
NewId(deck) ==
    LET ids == {deck[n].id : n \in 1..Len(deck)}
    IN  (CHOOSE m \in ids : \A x \in ids : x <= m) + 1

duplicate_slide(deck, slide, index) ==
    SubSeq(deck, 1, index)
        \o <<Slide(NewId(deck), slide.shapes,
                   IF slide.copy_of = 0 THEN slide.id ELSE slide.copy_of)>>
        \o SubSeq(deck, index + 1, Len(deck))

SlideOf(deck, id) == deck[CHOOSE n \in 1..Len(deck) : deck[n].id = id]

\* lines 266-271: the plan entry of a slide outside every loop, with the
\* loop bindings of the previous section left on it
PlainEntry_Bound(slide_id, number) ==
    [slide |-> slide_id, slide_number |-> number,
     extra_context |-> [loop_count |-> Int(1), loop_number |-> Int(1)]]

\* lines 266-271: the plan entry of a slide outside every loop
PlainEntry(slide_id, number) == [slide |-> slide_id, slide_number |-> number]

\* lines 282-303, with the 0-based index of the item as its loop_number
ExtraContext_ZeroBased(var, loop_item, loop_count, i) ==
    [loop_count |-> Int(loop_count), loop_number |-> Int(i - 1)]
        @@ (var :> loop_item)

\* lines 282-303: {var: item, "loop_count": n, "loop_number": i + 1}; a
\* later key of the literal replaces an earlier one
ExtraContext(var, loop_item, loop_count, i) ==
    [loop_count |-> Int(loop_count), loop_number |-> Int(i)]
        @@ (var :> loop_item)

\* the entry of a loop slide without the number of its item
LoopEntry_Unnumbered(slide_id, number, extra_context) ==
    [slide |-> slide_id, slide_number |-> number,
     extra_context |-> [key \in DOMAIN extra_context \ {"loop_number"} |->
                           extra_context[key]]]

\* lines 292-303: the plan entry of a slide of a loop
LoopEntry(slide_id, number, extra_context) ==
    [slide |-> slide_id, slide_number |-> number, extra_context |-> extra_context]

\* what the second pass has built: the entries, the presentation and the
\* next slide number
Built(entries, deck, number) == [entries |-> entries, deck |-> deck, number |-> number]

\* lines 280-305, for the first item only
RECURSIVE ExpandLoop_FirstItem(_, _, _, _)
ExpandLoop_FirstItem(section, i, j, b) ==
    IF j > Len(section.slides) THEN b
    ELSE ExpandLoop_FirstItem(section, i, j + 1,
            Built(Append(b.entries,
                         LoopEntry(section.slides[j], b.number,
                                   ExtraContext(section.loop_variable_name,
                                                section.loop_collection[1],
                                                Len(section.loop_collection), 1))),
                  b.deck, b.number + 1))

\* lines 280-305: the entries of a loop section from item i, slide j on
RECURSIVE ExpandLoop(_, _, _, _)
ExpandLoop(section, i, j, b) ==
    IF i > Len(section.loop_collection) THEN b
    ELSE IF j > Len(section.slides) THEN ExpandLoop(section, i + 1, 1, b)
    ELSE LET slide     == SlideOf(b.deck, section.slides[j])
             deck      == IF i = 1 THEN b.deck
                          ELSE duplicate_slide(b.deck, slide, b.number - 1)
             new_slide == IF i = 1 THEN slide ELSE deck[b.number]
             extra     == ExtraContext(section.loop_variable_name,
                                       section.loop_collection[i],
                                       Len(section.loop_collection), i)
         IN  ExpandLoop(section, i, j + 1,
                        Built(Append(b.entries,
                                     LoopEntry(new_slide.id, b.number, extra)),
                              deck, b.number + 1))

\* lines 258-305: one section of the second pass
BuildOne(section, b) ==
    IF ~IsLoopSection(section)
    THEN Built(Append(b.entries, PlainEntry(section.slides[1], b.number)),
               b.deck, b.number + 1)
    ELSE ExpandLoop(section, 1, 1, b)

IdleLoops ==
    /\ prs = <<>> /\ prs0 = <<>> /\ loop_context = FullContext /\ loop_perm_user = NoUser
    /\ lv = Locals0 /\ slides_to_process = <<>> /\ loop_errors = <<>>
    /\ lpc = "idle"

\* lines 110-210: one slide of the first pass
ScanSlide ==
    /\ lpc = "scan"
    /\ lv.i <= Len(prs)
    /\ LET i     == lv.i
           slide == prs[i]
           st0   == [starts |-> 0, ends |-> 0, removed |-> {},
                     has_loop_start |-> FALSE, has_loop_end |-> FALSE,
                     loop_variable_name |-> lv.loop_variable_name,
                     loop_collection |-> lv.loop_collection,
                     errs |-> <<>>, abort |-> FALSE, evaluated |-> 0]
           loop_slides == Append(lv.loop_slides, slide.id)
       IN  \E st \in {ScanShapes(slide.shapes, 1, st0, i, lv.in_loop,
                                 loop_context, loop_perm_user)} :
           LET left    == Kept(slide.shapes, st.removed)
               nested  == st.has_loop_start /\ lv.in_loop
               in_loop == lv.in_loop \/ st.has_loop_start
           IN
           /\ prs' = [prs EXCEPT ![i].shapes = left]
           /\ IF st.abort
              THEN /\ loop_errors' = loop_errors \o st.errs
                   /\ slides_to_process' = <<>>
                   /\ lpc' = "done"
                   /\ lv' = [lv EXCEPT !.collections_evaluated = @ + st.evaluated]
              ELSE IF nested
              THEN /\ loop_errors' = loop_errors \o st.errs \o
                         <<SlideError(i, "Nested loops are not supported")>>
                   /\ slides_to_process' = <<>>
                   /\ lpc' = "done"
                   /\ lv' = [lv EXCEPT !.collections_evaluated = @ + st.evaluated]
              ELSE /\ loop_errors' = loop_errors \o st.errs
                   /\ UNCHANGED <<slides_to_process, lpc>>
                   /\ lv' =
                        IF in_loop
                        THEN IF st.has_loop_end
                             THEN [lv EXCEPT
                                     !.i = i + 1,
                                     !.collections_evaluated = @ + st.evaluated,
                                     !.in_loop = FALSE,
                                     !.loop_variable_name = "",
                                     !.loop_collection = <<>>,
                                     !.loop_slides = <<>>,
                                     !.slide_sections = Append(@,
                                         LoopSection(loop_slides,
                                                     st.loop_variable_name,
                                                     st.loop_collection))]
                             ELSE [lv EXCEPT
                                     !.i = i + 1,
                                     !.collections_evaluated = @ + st.evaluated,
                                     !.in_loop = TRUE,
                                     !.loop_variable_name = st.loop_variable_name,
                                     !.loop_collection = st.loop_collection,
                                     !.loop_slides = loop_slides]
                        ELSE [lv EXCEPT
                                !.i = i + 1,
                                !.collections_evaluated = @ + st.evaluated,
                                !.slide_sections = Append(@, PlainSection(slide.id))]
    /\ UNCHANGED <<prs0, loop_context, loop_perm_user>>

\* lines 242-245 left out: the open loop is dropped and the plan is built
UnclosedLoop_Dropped ==
    /\ lpc = "scan"
    /\ lv.i > Len(prs)
    /\ lv.in_loop
    /\ lpc' = "build"
    /\ lv' = [lv EXCEPT !.section = 1, !.current_slide_number = 1]
    /\ UNCHANGED <<prs, prs0, loop_context, loop_perm_user, slides_to_process, loop_errors>>

\* lines 242-245: a loop that was never closed
UnclosedLoop ==
    /\ lpc = "scan"
    /\ lv.i > Len(prs)
    /\ lv.in_loop
    /\ loop_errors' = Append(loop_errors,
                             SlideError(0, "Loop started but never closed"))
    /\ slides_to_process' = <<>>
    /\ lpc' = "done"
    /\ UNCHANGED <<prs, prs0, loop_context, loop_perm_user, lv>>

\* lines 254-255: the second pass starts
StartPlan ==
    /\ lpc = "scan"
    /\ lv.i > Len(prs)
    /\ ~lv.in_loop
    /\ lpc' = "build"
    /\ lv' = [lv EXCEPT !.section = 1, !.current_slide_number = 1]
    /\ UNCHANGED <<prs, prs0, loop_context, loop_perm_user, slides_to_process, loop_errors>>

\* lines 258-305: the entries of one section
BuildSection ==
    /\ lpc = "build"
    /\ lv.section <= Len(lv.slide_sections)
    /\ \E b \in {BuildOne(lv.slide_sections[lv.section],
                         Built(slides_to_process, prs, lv.current_slide_number))} :
           /\ slides_to_process' = b.entries
           /\ prs' = b.deck
           /\ lv' = [lv EXCEPT !.section = @ + 1,
                               !.current_slide_number = b.number]
    /\ UNCHANGED <<prs0, loop_context, loop_perm_user, loop_errors, lpc>>

\* line 307
ReturnPlan ==
    /\ lpc = "build"
    /\ lv.section > Len(lv.slide_sections)
    /\ lpc' = "done"
    /\ UNCHANGED <<prs, prs0, loop_context, loop_perm_user, lv, slides_to_process, loop_errors>>

-----------------------------------------------------------------------------
(* The presentations and contexts process_loops is run on                  *)

Person(i) ==
    Obj("P" \o ToString(i), TRUE, [name |-> Str(<<"P" \o ToString(i)>>)])

People(n) == [i \in 1..n |-> Person(i)]

\* the largest collection a loop runs over
MaxItems == 2

TeamContext(members) == [team |-> Dict([members |-> members]), count |-> Int(2)]

\* a context and a principal: the team as a list of 0..MaxItems people, as a
\* queryable collection, absent, and with a member the principal may not view
LoopWorlds ==
    {<<TeamContext(List(People(n))), NoUser>> : n \in 0..MaxItems}
        \cup {<<TeamContext(QuerySet(People(2))), NoUser>>,
              <<[count |-> Int(2)], NoUser>>,
              <<TeamContext(List(People(2))), User({"P2"})>>}

TitleShape == <<"Report">>
BodyShape ==
    Tag(<<"u", ".", "name">>) \o <<" ", "(">> \o Tag(<<"loop_number">>)
        \o <<"/">> \o Tag(<<"loop_count">>) \o <<")">>
LoopStartShape(var, collection) ==
    <<"%", "loop", " ", var, " ", "in", " ">> \o collection \o <<"%">>
LoopEndShape == <<"%", "endloop", "%">>
TeamLoop == LoopStartShape("u", <<"team", ".", "members">>)

\* the shapes of the slides a template is made of
SlideKinds ==
    { <<TitleShape>>,
      <<BodyShape>>,
      <<TeamLoop>>,
      <<TeamLoop, BodyShape>>,
      <<LoopEndShape>>,
      <<BodyShape, LoopEndShape>>,
      <<TeamLoop, BodyShape, LoopEndShape>>,
      <<TeamLoop, TeamLoop>>,
      <<LoopEndShape, LoopEndShape>>,
      <<LoopStartShape("n", <<"count">>)>> }

\* the number of slides of a template
MaxSlides == 3

RECURSIVE ShapeLists(_)
ShapeLists(n) ==
    IF n = 0 THEN {<<>>}
    ELSE LET shorter == ShapeLists(n - 1)
         IN  shorter \cup {Append(d, k) : d \in shorter, k \in SlideKinds}

\* a template: its slides numbered from 1
Deck(shape_lists) ==
    [n \in 1..Len(shape_lists) |-> Slide(n, shape_lists[n], 0)]

Decks == {Deck(d) : d \in ShapeLists(MaxSlides)}

LoopInit ==
    /\ prs \in Decks
    /\ prs0 = prs
    /\ \E w \in LoopWorlds : loop_context = w[1] /\ loop_perm_user = w[2]
    /\ lv = Locals0
    /\ slides_to_process = <<>>
    /\ loop_errors = <<>>
    /\ lpc = "scan"

\*SUBSYSTEMS
-----------------------------------------------------------------------------
(* pptx_renderer/tables.py: fill_column_with_list                          *)
(* A table is a sequence of rows, a row a sequence of cell texts.          *)

\* "{{" in cell_element.text
HasPlaceholder(cell_text) == FindPair(cell_text, "{", "{", 1) # 0

\* clone_row_with_value (lines 120-144): the copy of the row, with the
\* cells that hold a placeholder cleared and the new text in the cell at
\* cell_index unless it was cleared
clone_row_with_value(original_row, cell_index, new_text) ==
    [i \in 1..Len(original_row) |->
        IF original_row[i] = <<>> /\ i # cell_index THEN original_row[i]
        ELSE IF HasPlaceholder(original_row[i]) THEN <<>>
        ELSE IF i = cell_index THEN new_text
        ELSE original_row[i]]

\* lines 103-105: one clone of the row appended for each remaining item
RECURSIVE CloneRows(_, _, _, _)
CloneRows(rows, row_element, cell_index, remaining) ==
    IF remaining = <<>> THEN rows
    ELSE CloneRows(Append(rows, clone_row_with_value(row_element, cell_index,
                                                     Head(remaining))),
                   row_element, cell_index, Tail(remaining))

IdleTable ==
    /\ table = <<>> /\ table0 = <<>> /\ src_row = 0 /\ src_col = 0
    /\ items = <<>> /\ remaining_items = <<>> /\ row_cursor = 0
    /\ fill_result = "idle" /\ fpc = "idle"

IdleSheet ==
    /\ column = <<>> /\ column0 = <<>> /\ cell_idx = 0
    /\ processed_value_list = <<>> /\ sheet_result = "idle"

IdleFill == IdleTable /\ IdleSheet

sheetVars == <<column, column0, cell_idx, processed_value_list, sheet_result>>

\* lines 59-86: the first item goes into the cell itself
SetFirstItem ==
    /\ fpc = "start"
    /\ IF items = <<>>
       THEN /\ table' = [table EXCEPT ![src_row][src_col] = <<>>]
            /\ fill_result' = "ok"
            /\ fpc' = "done"
            /\ UNCHANGED <<remaining_items, row_cursor>>
       ELSE /\ table' = [table EXCEPT ![src_row][src_col] = items[1]]
            /\ remaining_items' = Tail(items)
            /\ row_cursor' = src_row + 1
            /\ fpc' = "rows"
            /\ UNCHANGED fill_result
    /\ UNCHANGED <<table0, src_row, src_col, items, sheetVars>>

\* lines 89-100: one row below the cell
FillExistingRow ==
    /\ fpc = "rows"
    /\ row_cursor <= Len(table)
    /\ IF Len(table[row_cursor]) < src_col
       THEN /\ row_cursor' = row_cursor + 1
            /\ UNCHANGED <<table, remaining_items, fill_result, fpc>>
       ELSE IF Strip(table[row_cursor][src_col]) # <<>>
       THEN /\ fill_result' = "TableCellOverwriteError"
            /\ fpc' = "done"
            /\ UNCHANGED <<table, remaining_items, row_cursor>>
       ELSE IF remaining_items = <<>>
       THEN \* remaining_items.pop(0) on the empty list
            /\ fill_result' = "IndexError"
            /\ fpc' = "done"
            /\ UNCHANGED <<table, remaining_items, row_cursor>>
       ELSE /\ table' = [table EXCEPT ![row_cursor][src_col] = Head(remaining_items)]
            /\ remaining_items' = Tail(remaining_items)
            /\ IF Tail(remaining_items) = <<>>
               THEN /\ fill_result' = "ok"
                    /\ fpc' = "done"
                    /\ UNCHANGED row_cursor
               ELSE /\ row_cursor' = row_cursor + 1
                    /\ UNCHANGED <<fill_result, fpc>>
    /\ UNCHANGED <<table0, src_row, src_col, items, sheetVars>>

\* lines 103-105: the rows are used up
AppendClones ==
    /\ fpc = "rows"
    /\ row_cursor > Len(table)
    /\ table' = CloneRows(table, table[src_row], src_col, remaining_items)
    /\ remaining_items' = <<>>
    /\ fill_result' = "ok"
    /\ fpc' = "done"
    /\ UNCHANGED <<table0, src_row, src_col, items, row_cursor, sheetVars>>

-----------------------------------------------------------------------------
(* office_renderer/worksheets.py: the expansion of a list down a column    *)
(* A column is the sequence of the values of its cells.                    *)

\* bool(value) of a cell value
Truthy(v) ==
    CASE v.k = "none" -> FALSE
      [] v.k = "str"  -> v.s # <<>>
      [] v.k = "int"  -> v.n # 0
      [] v.k = "bool" -> v.b
      [] OTHER        -> TRUE

\* worksheet[f"{col_letter}{row_idx}"]: the cell, created empty on demand
CellAt(col, row_idx) == IF row_idx <= Len(col) THEN col[row_idx] ELSE None

SetCellAt(col, row_idx, v) ==
    [r \in 1..(IF row_idx > Len(col) THEN row_idx ELSE Len(col)) |->
        IF r = row_idx THEN v ELSE CellAt(col, r)]

Expanded(col, outcome) == [col |-> col, outcome |-> outcome]

\* lines 42-62: the values after the first, from the i-th on
RECURSIVE ExpandDown(_, _, _, _)
ExpandDown(col, idx, values, i) ==
    IF i > Len(values) THEN Expanded(col, "ok")
    ELSE IF Truthy(CellAt(col, idx + i - 1))
    THEN Expanded(col, "CellOverwriteError")
    ELSE ExpandDown(SetCellAt(col, idx + i - 1, values[i]), idx, values, i + 1)

\* lines 27-62: the processed values of one cell are written to the column
ExpandWorksheetCell ==
    /\ sheet_result = "start"
    /\ \E e \in {IF Len(processed_value_list) = 1
                 THEN Expanded(SetCellAt(column, cell_idx, processed_value_list[1]),
                               "ok")
                 ELSE ExpandDown(SetCellAt(column, cell_idx, processed_value_list[1]),
                                 cell_idx, processed_value_list, 2)} :
           /\ column' = e.col
           /\ sheet_result' = e.outcome
    /\ UNCHANGED <<table, table0, src_row, src_col, items, remaining_items,
                   row_cursor, fill_result, fpc, column0, cell_idx,
                   processed_value_list>>

-----------------------------------------------------------------------------
(* The tables and columns the fills are run on                             *)

\* the cell the list comes from, as test_pptx_integration.py has it
SourceCell == <<"Here", ":", " ">> \o Tag(<<"program", ".", "users", ".", "email">>)

FilledCell == <<"x">>

\* the row of the source cell: the cell alone, or beside a cell with text,
\* a cell with a placeholder or an empty cell
SourceRows ==
    { <<SourceCell>>, <<SourceCell, FilledCell>>,
      <<Tag(<<"count">>), SourceCell>>, <<<<>>, SourceCell>> }

\* a row below the source row: without cells, or with empty, blank and
\* filled cells
RowsBelow ==
    { <<>>, << <<>> >>, << <<>>, <<>> >>, << <<" ">>, <<" ">> >>,
      <<FilledCell, FilledCell>>, << <<>>, FilledCell >>, <<FilledCell, <<>> >> }

\* the number of rows below the source row
MaxRowsBelow == 2

RECURSIVE RowLists(_)
RowLists(n) ==
    IF n = 0 THEN {<<>>}
    ELSE LET shorter == RowLists(n - 1)
         IN  shorter \cup {Append(rows, r) : rows \in shorter, r \in RowsBelow}

HeaderRow == <<FilledCell, FilledCell>>

\* the length of the list that is filled in
MaxFill == 3

ItemText(i) == <<"item" \o ToString(i)>>

ItemLists == {[i \in 1..n |-> ItemText(i)] : n \in 0..MaxFill}

\* what a worksheet cell holds
CellValues == {None, EmptyStr, Int(0), Str(<<"x">>)}

\* the number of cells below the cell that is expanded
MaxCellsBelow == 2

RECURSIVE ValueLists(_)
ValueLists(n) ==
    IF n = 0 THEN {<<>>}
    ELSE LET shorter == ValueLists(n - 1)
         IN  shorter \cup {Append(vs, v) : vs \in shorter, v \in CellValues}

\* a call of fill_column_with_list
TableInit ==
    /\ \E header \in {<<>>, <<HeaderRow>>}, source \in SourceRows,
          below \in RowLists(MaxRowsBelow) :
          /\ table = header \o <<source>> \o below
          /\ src_row = Len(header) + 1
          /\ src_col = CHOOSE c \in 1..Len(source) : source[c] = SourceCell
    /\ table0 = table
    /\ items \in ItemLists
    /\ remaining_items = <<>>
    /\ row_cursor = 0
    /\ fill_result = "running"
    /\ fpc = "start"

\* a cell of a worksheet column whose placeholder gave 1..MaxFill values
SheetInit ==
    /\ \E below \in ValueLists(MaxCellsBelow) :
          column = <<Str(SourceCell)>> \o below
    /\ column0 = column
    /\ cell_idx = 1
    /\ \E n \in 1..MaxFill :
          processed_value_list = [i \in 1..n |-> Str(ItemText(i))]
    /\ sheet_result = "start"

FillInit == (TableInit /\ IdleSheet) \/ (IdleTable /\ SheetInit)

-----------------------------------------------------------------------------
(* office_renderer/context_extractor.py: extract_context_keys              *)
(* A key is the token string of the identifier; each of the two sorted     *)
(* lists without duplicates is the set of its keys.  A paragraph is one    *)
(* run, so merge_split_placeholders leaves its text as it is.              *)

KEYS_TO_IGNORE == {<<"now">>, <<"loop_count">>, <<"loop_number">>}

NoKeys == [simple_fields |-> {}, object_fields |-> {}]

KeysUnion(a, b) ==
    [simple_fields |-> a.simple_fields \cup b.simple_fields,
     object_fields |-> a.object_fields \cup b.object_fields]

\* re.match(r"([^\.\[\]\|]+)", ph): the longest prefix without . [ ] |
RECURSIVE LeadingKey(_)
LeadingKey(ph) ==
    IF ph = <<>> \/ Head(ph) \in {".", "[", "]", "|"} THEN <<>>
    ELSE <<Head(ph)>> \o LeadingKey(Tail(ph))

\* lines 29-39: the key of one placeholder
KeysOfPlaceholder(ph) ==
    IF ph = <<>> \/ LeadingKey(ph) = <<>> THEN NoKeys
    ELSE IF Strip(LeadingKey(ph)) \in KEYS_TO_IGNORE THEN NoKeys
    ELSE IF HasTok(ph, ".") \/ HasTok(ph, "[")
    THEN [simple_fields |-> {}, object_fields |-> {Strip(LeadingKey(ph))}]
    ELSE [simple_fields |-> {Strip(LeadingKey(ph))}, object_fields |-> {}]

\* lines 27-39: PLACEHOLDER_PATTERN.findall(text) from position `from`,
\* each match stripped
RECURSIVE KeysFrom(_, _)
KeysFrom(t, from) ==
    IF MatchClose(t, from) = 0 THEN NoKeys
    ELSE KeysUnion(KeysOfPlaceholder(RawExpr(t, from)),
                   KeysFrom(t, MatchClose(t, from) + 2))

extract_top_level_context_keys_from_text(t) == KeysFrom(t, 1)

\* lines 65-78: the texts of the shapes of all slides
ShapeTexts(deck) ==
    UNION {{deck[n].shapes[m] : m \in 1..Len(deck[n].shapes)} :
               n \in 1..Len(deck)}

\* lines 68-72: the loop variables of the loop directives
LoopVariables(deck) ==
    {<<extract_loop_directive(t).variable>> :
        t \in {s \in ShapeTexts(deck) : extract_loop_directive(s) # None}}

\* lines 95-98: the keys of all texts
RECURSIVE KeysOfTexts(_)
KeysOfTexts(texts) ==
    IF texts = {} THEN NoKeys
    ELSE LET t == CHOOSE x \in texts : TRUE
         IN  KeysUnion(extract_top_level_context_keys_from_text(t),
                       KeysOfTexts(texts \ {t}))

\* lines 100-106: the loop variables are taken out of object_fields
WithoutLoopVariables(found, loop_variables) ==
    [simple_fields |-> found.simple_fields,
     object_fields |-> found.object_fields \ loop_variables]

extract_context_keys(template) ==
    WithoutLoopVariables(KeysOfTexts(ShapeTexts(template)),
                         LoopVariables(template))

-----------------------------------------------------------------------------
(* The render extract_context_keys is compared with: process_loops, then   *)
(* every text of every slide of the plan in normal mode, with the context  *)
(* of the slide                                                            *)

\* what processing a text records: the expressions that failed, and the
\* exception that ended the render if there was one
Outcome(errs, raised) == [errs |-> errs, raised |-> raised]

Joined(a, b) ==
    IF a.raised # "" THEN a ELSE Outcome(a.errs \o b.errs, b.raised)

\* normal mode on the value of one placeholder: a missing attribute and a
\* denied record are recorded, as is a null or empty value; every other
\* exception ends the render
TagOutcome(value, raw_expr) ==
    IF IsExc(value)
    THEN IF value.type \in {"MissingData", "PermissionDenied"}
         THEN Outcome(<<raw_expr>>, "")
         ELSE Outcome(<<>>, value.type)
    ELSE IF value = None \/ value = EmptyStr THEN Outcome(<<raw_expr>>, "")
    ELSE Outcome(<<>>, "")

\* normal mode on one text from position `from`
RECURSIVE TextOutcome(_, _, _, _)
TextOutcome(t, from, ctx, user) ==
    IF MatchClose(t, from) = 0 THEN Outcome(<<>>, "")
    ELSE Joined(TagOutcome(parse_formatted_tag(RawExpr(t, from), ctx, user, 0),
                           RawExpr(t, from)),
                TextOutcome(t, MatchClose(t, from) + 2, ctx, user))

\* the shapes of one slide from the n-th on
RECURSIVE SlideOutcome(_, _, _, _)
SlideOutcome(shapes, n, ctx, user) ==
    IF n > Len(shapes) THEN Outcome(<<>>, "")
    ELSE Joined(TextOutcome(shapes[n], 1, ctx, user),
                SlideOutcome(shapes, n + 1, ctx, user))

\* the context of a slide of the plan: its extra context over the context
\* of the render
EntryContext(entry, ctx) ==
    IF "extra_context" \in DOMAIN entry THEN entry.extra_context @@ ctx ELSE ctx

IdleExtract ==
    /\ keys = NoKeys /\ missing_key = "" /\ render_errors = <<>>
    /\ xi = 0 /\ xpc = "idle"

\* extract_context_keys on the template
ExtractKeys ==
    /\ xpc = "extract"
    /\ keys' = extract_context_keys(prs0)
    /\ xpc' = "render"
    /\ UNCHANGED <<missing_key, render_errors, xi>>

\* one slide of the plan process_loops returned
RenderEntry ==
    /\ xpc = "render"
    /\ lpc = "done"
    /\ xi <= Len(slides_to_process)
    /\ \E o \in {SlideOutcome(SlideOf(prs, slides_to_process[xi].slide).shapes, 1,
                              EntryContext(slides_to_process[xi], loop_context),
                              loop_perm_user)} :
           IF o.raised # ""
           THEN /\ xpc' = "raised"
                /\ UNCHANGED <<render_errors, xi>>
           ELSE /\ render_errors' = render_errors \o o.errs
                /\ xi' = xi + 1
                /\ xpc' = xpc
    /\ UNCHANGED <<keys, missing_key>>

\* the end of the traversal
FinishRender ==
    /\ xpc = "render"
    /\ lpc = "done"
    /\ xi > Len(slides_to_process)
    /\ xpc' = "done"
    /\ UNCHANGED <<keys, missing_key, render_errors, xi>>

\* the context of the templates: a team, a number and a record with a method
ExtractContext ==
    [team |-> Dict([members |-> List(People(2))]),
     count |-> Int(2),
     user |-> Obj("U", TRUE, [name |-> Str(<<"Ann">>),
                              badge |-> Method(Str(<<"B7">>), FALSE)])]

\* the context without one key ("" leaves none out)
Without(ctx, key) == [k \in DOMAIN ctx \ {key} |-> ctx[k]]

MissingKeys == {"", "team", "count", "user"}

\* the slides of a template: each renders without an error in ExtractContext
TemplateSlides ==
    { <<TitleShape>>,
      <<Tag(<<"count">>)>>,
      <<Tag(<<"user", ".", "name">>)>>,
      <<Tag(<<"now">>)>>,
      <<Tag(<<"user", ".", "badge", "(", "$", "count", "$", ")">>)>>,
      <<TeamLoop, BodyShape, LoopEndShape>>,
      <<TeamLoop, Tag(<<"u">>), LoopEndShape>> }

\* the number of slides of a template
MaxTemplateSlides == 2

RECURSIVE TemplateShapes(_)
TemplateShapes(n) ==
    IF n = 0 THEN {<<>>}
    ELSE LET shorter == TemplateShapes(n - 1)
         IN  shorter \cup {Append(d, k) : d \in shorter, k \in TemplateSlides}

\* the templates: up to MaxTemplateSlides slides, and the loop of the
\* three-slide presentation
Templates ==
    {Deck(d) : d \in TemplateShapes(MaxTemplateSlides) \ {<<>>}}
        \cup {Deck(<<<<TeamLoop>>, <<BodyShape>>, <<LoopEndShape>>>>)}

\* a template whose loop is never closed
BrokenTemplates == {Deck(<<<<TeamLoop>>, <<BodyShape>>>>)}

ExtractInit ==
    /\ prs \in Templates \cup BrokenTemplates
    /\ prs0 = prs
    /\ missing_key \in MissingKeys
    /\ loop_context = Without(ExtractContext, missing_key)
    /\ loop_perm_user = NoUser
    /\ lv = Locals0
    /\ slides_to_process = <<>>
    /\ loop_errors = <<>>
    /\ lpc = "scan"
    /\ keys = NoKeys
    /\ render_errors = <<>>
    /\ xi = 1
    /\ xpc = "extract"

-----------------------------------------------------------------------------
(* pptx_renderer/merger.py and pptx_renderer/renderer.py: render_pptx      *)
(* A document is the sequence of its paragraphs, a paragraph the sequence  *)
(* of the texts of its runs.                                               *)

\* "{{" in text, "}}" in text
HasOpen(run_text) == FindPair(run_text, "{", "{", 1) # 0
HasClose(run_text) == FindPair(run_text, "}", "}", 1) # 0

\* merger.py lines 27-34: the first run after the i-th that holds "}}", or 0
ClosingRun(runs, i) ==
    LET later == {j \in (i + 1)..Len(runs) : HasClose(runs[j])}
    IN  IF later = {} THEN 0 ELSE CHOOSE j \in later : \A m \in later : j <= m

\* merger.py lines 26-31: the texts of the runs i..j in one string
RECURSIVE MergedText(_, _, _)
MergedText(runs, i, j) ==
    IF i > j THEN <<>> ELSE runs[i] \o MergedText(runs, i + 1, j)

\* what merge_runs_in_paragraph leaves: the runs, the errors appended, and
\* whether UnterminatedTagException was raised
MergedRuns(runs, errs, raised) == [runs |-> runs, errs |-> errs, raised |-> raised]

\* the processed text in run i, the runs after it kept
RunsAfter_MergedKept(runs, i, j, processed) ==
    SubSeq(runs, 1, i - 1) \o <<processed.out>> \o SubSeq(runs, i + 1, Len(runs))

\* merger.py lines 48-52, 64-65: the processed text in run i, the runs up
\* to j removed
RunsAfter(runs, i, j, processed) ==
    SubSeq(runs, 1, i - 1) \o <<processed.out>> \o SubSeq(runs, j + 1, Len(runs))

\* merger.py lines 23-70: the runs from the i-th on
RECURSIVE MergeFrom(_, _, _, _)
MergeStep(runs, i, j, processed, errs, env) ==
    MergeFrom(RunsAfter(runs, i, j, processed), i + 1, errs \o processed.errs, env)

MergeFrom(runs, i, errs, env) ==
    IF i > Len(runs) THEN MergedRuns(runs, errs, FALSE)
    ELSE IF HasOpen(runs[i]) /\ ~HasClose(runs[i])
    THEN IF ClosingRun(runs, i) = 0 THEN MergedRuns(runs, errs, TRUE)
         ELSE MergeStep(runs, i, ClosingRun(runs, i),
                        process_text(MergedText(runs, i, ClosingRun(runs, i)),
                                     env.context, env.request_user,
                                     env.check_permissions),
                        errs, env)
    ELSE MergeStep(runs, i, i,
                   process_text(runs[i], env.context, env.request_user,
                                env.check_permissions),
                   errs, env)

merge_runs_in_paragraph(paragraph, env) == MergeFrom(paragraph, 1, <<>>, env)

\* renderer.py line 64 (`if errors:`): the render is aborted
Aborted_Never(errs) == FALSE

Aborted(errs) == errs # <<>>

OutputPath == Str(<<"out", ".", "pptx">>)

\* what render_pptx returns, as its callers take it apart
\* (`result, errors = render_xlsx(...)`)
Returned(out, errs) == [output |-> out, errors |-> errs]

IdleRender ==
    /\ doc = <<>> /\ cursor = 0
    /\ render_ctx = [context |-> FullContext, request_user |-> NoUser,
                     check_permissions |-> FALSE]
    /\ acc = <<>> /\ saves = 0 /\ result = None /\ rpc = "idle"

\* renderer.py lines 43-62: one paragraph of the traversal
ProcessParagraph ==
    /\ rpc = "run"
    /\ cursor <= Len(doc)
    /\ \E m \in {merge_runs_in_paragraph(doc[cursor], render_ctx)} :
           IF m.raised
           THEN /\ rpc' = "raised"
                /\ UNCHANGED <<doc, cursor, acc>>
           ELSE /\ doc' = [doc EXCEPT ![cursor] = m.runs]
                /\ acc' = acc \o m.errs
                /\ cursor' = cursor + 1
                /\ rpc' = rpc
    /\ UNCHANGED <<render_ctx, saves, result>>

\* renderer.py lines 64-69: errors were recorded, nothing is saved
AbortRender ==
    /\ rpc = "run"
    /\ cursor > Len(doc)
    /\ Aborted(acc)
    /\ result' = Returned(None, acc)
    /\ rpc' = "returned"
    /\ UNCHANGED <<doc, cursor, render_ctx, acc, saves>>

\* renderer.py lines 71-72: prs.save(output_path)
SaveAndReturn ==
    /\ rpc = "run"
    /\ cursor > Len(doc)
    /\ ~Aborted(acc)
    /\ saves' = saves + 1
    /\ result' = Returned(OutputPath, None)
    /\ rpc' = "returned"
    /\ UNCHANGED <<doc, cursor, render_ctx, acc>>

\* the texts of the runs: literal text, a placeholder that resolves to a
\* record, a placeholder that resolves to nothing, and the two halves of a
\* placeholder split over two runs (the first half alone is never closed),
\* and a complete placeholder followed by the first half of another
Runs ==
    { <<"Hello">>,
      Tag(<<"user">>),
      Tag(<<"nothing">>),
      <<"{", "{", " ", "user">>,
      <<" ", "}", "}">>,
      Tag(<<"user">>) \o <<" ", "{", "{", " ", "user">> }

\* the number of runs of a paragraph, of paragraphs of a document
MaxRuns == 2
MaxParagraphs == 2

RECURSIVE SeqsUpTo(_, _)
SeqsUpTo(S, n) ==
    IF n = 0 THEN {<<>>}
    ELSE LET shorter == SeqsUpTo(S, n - 1)
         IN  shorter \cup {Append(q, x) : q \in shorter, x \in S}

Paragraphs == SeqsUpTo(Runs, MaxRuns) \ {<<>>}

Documents == SeqsUpTo(Paragraphs, MaxParagraphs)

\* who renders: nobody checks, or a principal who may view no record does
RenderEnvs ==
    { [context |-> FullContext, request_user |-> NoUser,
       check_permissions |-> FALSE],
      [context |-> FullContext,
       request_user |-> User({"Alice", "Bob", "DenyUser"}),
       check_permissions |-> TRUE] }

RenderInit ==
    /\ doc \in Documents
    /\ cursor = 1
    /\ render_ctx \in RenderEnvs
    /\ acc = <<>>
    /\ saves = 0
    /\ result = None
    /\ rpc = "run"

-----------------------------------------------------------------------------
(* templating/list.py: process_text_list, and the two modes of             *)
(* templating.core.process_text it calls                                   *)

\* core.get_matching_tags: the number of {{...}} matches from `from` on
RECURSIVE CountTags(_, _)
CountTags(t, from) ==
    IF MatchClose(t, from) = 0 THEN 0
    ELSE 1 + CountTags(t, MatchClose(t, from) + 2)

get_matching_tags(t) == CountTags(t, 1)

\* the literal text after the first placeholder
Suffix(t) == SubSeq(t, MatchClose(t, 1) + 2, Len(t))

\* what process_text returns, with the number of tags it evaluated
Processed(value, evaluated) == [value |-> value, evaluated |-> evaluated]

\* table mode on the value of the placeholder, with a list value joined
\* as normal mode joins it
Tabled_Joined(value, prefix, suffix) ==
    IF IsExc(value) THEN value
    ELSE IF value.k = "list"
    THEN Str(prefix \o Join([i \in 1..Len(value.items) |-> PyStr(value.items[i])],
                            <<",", " ">>) \o suffix)
    ELSE Str(prefix \o PyStr(value) \o suffix)

\* table mode on the value of the placeholder: one string for each item of
\* a list, one string for a scalar
Tabled(value, prefix, suffix) ==
    IF IsExc(value) THEN value
    ELSE IF value.k = "list"
    THEN List([i \in 1..Len(value.items) |->
                 Str(prefix \o PyStr(value.items[i]) \o suffix)])
    ELSE Str(prefix \o PyStr(value) \o suffix)

\* process_text(text, mode="table")
process_text_table(t, ctx, perm_user) ==
    IF get_matching_tags(t) # 1 THEN Processed(Exc("ValueError"), 0)
    ELSE Processed(Tabled(parse_formatted_tag(RawExpr(t, 1), ctx, perm_user, 0),
                          Literal(t, 1), Suffix(t)),
                   1)

\* normal mode on the value of one placeholder
NormalValue(value) ==
    IF IsExc(value) THEN value
    ELSE IF value = None THEN EmptyStr
    ELSE IF value.k = "list"
    THEN Str(Join([i \in 1..Len(value.items) |-> PyStr(value.items[i])],
                  <<",", " ">>))
    ELSE Str(PyStr(value))

\* the literal text, the value and the rest of the text in one string
NormalJoined(literal, value, rest) ==
    IF IsExc(value) THEN Processed(value, rest.evaluated + 1)
    ELSE IF IsExc(rest.value) THEN Processed(rest.value, rest.evaluated + 1)
    ELSE Processed(Str(literal \o value.s \o rest.value.s), rest.evaluated + 1)

\* process_text(text, mode="normal") from position `from`
RECURSIVE NormalFrom(_, _, _, _)
NormalFrom(t, from, ctx, perm_user) ==
    IF MatchClose(t, from) = 0 THEN Processed(Str(SubSeq(t, from, Len(t))), 0)
    ELSE NormalJoined(Literal(t, from),
                      NormalValue(parse_formatted_tag(RawExpr(t, from), ctx,
                                                      perm_user, 0)),
                      NormalFrom(t, MatchClose(t, from) + 2, ctx, perm_user))

process_text_normal(t, ctx, perm_user) == NormalFrom(t, 1, ctx, perm_user)

\* float(value) accepts the text of a number
IsNumber(s) ==
    \/ Len(s) = 1 /\ s[1] \in IntToks
    \/ Len(s) = 3 /\ s[1] \in IntToks /\ s[2] = "." /\ s[3] \in IntToks

\* list.py lines 60-66
make_float(value, throw_if_fail) ==
    IF IsNumber(value.s) THEN Float(value.s)
    ELSE IF ~throw_if_fail THEN value
    ELSE Exc("BadFloatDataResultError")

\* list.py lines 17-29, on what process_text returned: the first exception
\* raised, or the value
RECURSIVE FloatItems(_, _)
FloatItems(rs, throw_if_fail) ==
    IF rs = <<>> THEN List(<<>>)
    ELSE IF IsExc(make_float(Head(rs), throw_if_fail))
    THEN make_float(Head(rs), throw_if_fail)
    ELSE IF IsExc(FloatItems(Tail(rs), throw_if_fail))
    THEN FloatItems(Tail(rs), throw_if_fail)
    ELSE List(<<make_float(Head(rs), throw_if_fail)>>
                  \o FloatItems(Tail(rs), throw_if_fail).items)

AsFloat(r, kw) ==
    IF IsExc(r) \/ ~kw.as_float THEN r
    ELSE IF r.k = "list" THEN FloatItems(r.items, kw.fail_if_not_float)
    ELSE make_float(r, kw.fail_if_not_float)

\* list.py lines 52-55: each item in normal mode, up to the first exception
RECURSIVE EachNormal(_, _)
EachNormalOn(first, rest) ==
    IF IsExc(first) THEN first
    ELSE IF IsExc(rest) THEN rest
    ELSE List(<<first>> \o rest.items)

EachNormal(its, kw) ==
    IF its = <<>> THEN List(<<>>)
    ELSE EachNormalOn(AsFloat(process_text_normal(Head(its), kw.context,
                                                  kw.perm_user).value, kw),
                      EachNormal(Tail(its), kw))

\* list.py lines 44-48: the result of table mode, a list as it is and
\* anything else as the only item
AsResults(only) ==
    IF IsExc(only) THEN only
    ELSE IF only.k = "list" THEN only
    ELSE List(<<only>>)

\* list.py lines 31-57
process_text_list(its, kw) ==
    IF Len(its) = 1 /\ get_matching_tags(its[1]) = 1
    THEN AsResults(AsFloat(process_text_table(its[1], kw.context,
                                              kw.perm_user).value, kw))
    ELSE EachNormal(its, kw)

IdleList ==
    /\ list_items = <<>>
    /\ list_kwargs = [context |-> FullContext, perm_user |-> NoUser,
                      as_float |-> FALSE, fail_if_not_float |-> FALSE]
    /\ list_results = None /\ tags_evaluated = 0 /\ list_pc = "idle"

\* process_text(text, mode="table") on the first item
ProcessTable ==
    /\ list_pc = "table"
    /\ \E r \in {process_text_table(list_items[1], list_kwargs.context,
                                    list_kwargs.perm_user)} :
           /\ list_results' = r.value
           /\ tags_evaluated' = r.evaluated
    /\ list_pc' = "returned"
    /\ UNCHANGED <<list_items, list_kwargs>>

\* process_text_list(items, **kwargs)
ProcessTextList ==
    /\ list_pc = "list"
    /\ list_results' = process_text_list(list_items, list_kwargs)
    /\ list_pc' = "listed"
    /\ UNCHANGED <<list_items, list_kwargs, tags_evaluated>>

\* the number of users of a program
MaxUsers == 3

\* the i-th user of a program: the users of tests/test_templating.py first
UserNo(i) ==
    IF i <= Len(Users) THEN Users[i]
    ELSE Obj("User" \o ToString(i), TRUE,
             [name |-> Str(<<"User" \o ToString(i)>>),
              email |-> Email("user" \o ToString(i)),
              is_active |-> Bool(TRUE)])

\* the context of tests/test_templating.py with n users
ProgramOf(n) ==
    [user |-> Alice, count |-> Int(42),
     program |-> Dict([name |-> Str(<<"Test", " ", "Program">>),
                       users |-> List([i \in 1..n |-> UserNo(i)])])]

UserEmail == <<"User", " ", "email", ":", " ">>
EmailsTag == Tag(<<"program", ".", "users", ".", "email">>)

\* the texts of the items: none, one and two placeholders, with and
\* without literal text around them
ListTexts ==
    { UserEmail \o EmailsTag,
      EmailsTag,
      EmailsTag \o <<" ", "!">>,
      <<"Name", ":", " ">> \o Tag(<<"user", ".", "name">>) \o <<".">>,
      Tag(<<"count">>),
      Tag(<<"user", ".", "name">>) \o <<" ">> \o Tag(<<"user", ".", "email">>),
      Tag(<<"user", ".", "ghost">>),
      <<"Total">>,
      <<>> }

\* the number of items of a list
MaxListItems == 2

ListInit ==
    /\ list_items \in SeqsUpTo(ListTexts, MaxListItems) \ {<<>>}
    /\ \E n \in 0..MaxUsers, f \in BOOLEAN, g \in BOOLEAN :
          list_kwargs = [context |-> ProgramOf(n), perm_user |-> NoUser,
                         as_float |-> f, fail_if_not_float |-> g]
    /\ list_results = None
    /\ tags_evaluated = 0
    /\ list_pc \in {"table", "list"}

-----------------------------------------------------------------------------
(* templating/parser.py lines 143-144: `now` over the tags of one render.  *)
(* A render evaluates the tags of the document one after the other;        *)
(* datetime.datetime.now() gives the reading of the wall clock at the      *)
(* moment of the call, never earlier than a reading given before.          *)

\* the readings of the wall clock: 0..MaxClock
MaxClock == 2

\* the context of the render: the context of the tests with a queryable
\* collection of the same users, an object with a method that takes an
\* argument and an attribute that is null, and a string that holds "$"
TagContext ==
    [members |-> QuerySet(Users),
     scaler  |-> Obj("Scaler", FALSE,
                     [scale |-> Method(Int(2), FALSE), note |-> None]),
     price   |-> Str(<<"$", "count", "$">>)] @@ FullContext

IdleClock == pending = <<>> /\ tag_values = <<>> /\ wall_clock = 0

\* the next tag of the traversal is evaluated when the clock shows t
EvaluateTag ==
    /\ pending # <<>>
    /\ \E t \in wall_clock..MaxClock :
           /\ wall_clock' = t
           /\ tag_values' = Append(tag_values,
                  [expr  |-> Head(pending),
                   value |-> parse_formatted_tag(Head(pending), TagContext,
                                                 NoUser, t)])
    /\ pending' = Tail(pending)

\* the tags of the templates
RenderTags ==
    { <<"now">>,
      <<"now", " ", "|", " ", "%">>,
      <<"user", ".", "name">> }

\* the number of tags of a render
MaxTags == 3

ClockInit ==
    /\ pending \in SeqsUpTo(RenderTags, MaxTags)
    /\ tag_values = <<>>
    /\ wall_clock = 0

\* the expressions of the tags the evaluator is run on: filters on a list
\* and on a queryable collection, calls, absent and null attributes, empty
\* and "#"/"%" segments, sub-expressions
EvalTags ==
    { <<"program", ".", "users", "[", "is_active", "=", "true", "]", ".", "email">>,
      <<"program", ".", "users", "[", "name", "=", "Alice", "]", ".", "email">>,
      <<"program", ".", "users", "[", "name", "=", "\"", "Bob", "\"", "]">>,
      <<"members", "[", "is_active", "=", "true", "]", ".", "email">>,
      <<"members", ".", "name">>,
      <<"scaler", ".", "scale", "(", "2", ")">>,
      <<"scaler", ".", "scale", "(", "1", ".", "5", ")">>,
      <<"scaler", ".", "scale", "(", "$", "count", "$", ")">>,
      <<"scaler", ".", "scale", "(", "$", "price", "$", ")">>,
      <<"scaler", ".", "note">>,
      <<"scaler", ".", "ghost">>,
      <<"program", ".", "ghost">>,
      <<"non_existent">>,
      <<"nothing">>,
      <<>>,
      <<".", "name">>,
      <<"user", ".", ".", "name">>,
      <<"user", ".">>,
      <<"user", ".", "#">>,
      <<"%", ".", "name">>,
      <<"user", ".", "name">> }

\* the number of tags evaluated one after the other
MaxEvalTags == 2

EvalInit ==
    /\ pending \in SeqsUpTo(EvalTags, MaxEvalTags) \ {<<>>}
    /\ tag_values = <<>>
    /\ wall_clock = 0

-----------------------------------------------------------------------------
(* Specifications                                                          *)

\* process_text on every text, context and principal of the bounds
InitText == TextInit /\ IdleLoops /\ IdleFill /\ IdleExtract /\ IdleRender /\ IdleList
    /\ IdleClock

NextText ==
    \/ Replace /\ UNCHANGED <<loopVars, fillVars, extVars, renderVars, listVars, clockVars>>
    \/ ReturnText /\ UNCHANGED <<loopVars, fillVars, extVars, renderVars, listVars, clockVars>>

SpecText == InitText /\ [][NextText]_vars

\* process_loops on every presentation and context of the bounds
InitLoops == IdleText /\ LoopInit /\ IdleFill /\ IdleExtract /\ IdleRender /\ IdleList
    /\ IdleClock

NextLoops ==
    \/ ScanSlide /\ UNCHANGED <<textVars, fillVars, extVars, renderVars, listVars, clockVars>>
    \/ UnclosedLoop /\ UNCHANGED <<textVars, fillVars, extVars, renderVars, listVars, clockVars>>
    \/ StartPlan /\ UNCHANGED <<textVars, fillVars, extVars, renderVars, listVars, clockVars>>
    \/ BuildSection /\ UNCHANGED <<textVars, fillVars, extVars, renderVars, listVars, clockVars>>
    \/ ReturnPlan /\ UNCHANGED <<textVars, fillVars, extVars, renderVars, listVars, clockVars>>

SpecLoops == InitLoops /\ [][NextLoops]_vars

\* the column fills on every table, column and list of the bounds
InitFill == IdleText /\ IdleLoops /\ FillInit /\ IdleExtract /\ IdleRender /\ IdleList
    /\ IdleClock

NextFill ==
    \/ SetFirstItem /\ UNCHANGED <<textVars, loopVars, extVars, renderVars, listVars, clockVars>>
    \/ FillExistingRow /\ UNCHANGED <<textVars, loopVars, extVars, renderVars, listVars, clockVars>>
    \/ AppendClones /\ UNCHANGED <<textVars, loopVars, extVars, renderVars, listVars, clockVars>>
    \/ ExpandWorksheetCell /\ UNCHANGED <<textVars, loopVars, extVars, renderVars, listVars, clockVars>>

SpecFill == InitFill /\ [][NextFill]_vars

\* extract_context_keys on every template of the bounds, then the render
\* of the template with one context key left out
InitExtract == IdleText /\ ExtractInit /\ IdleFill /\ IdleRender /\ IdleList
    /\ IdleClock

NextExtract ==
    \/ ExtractKeys /\ UNCHANGED <<textVars, loopVars, fillVars, renderVars, listVars, clockVars>>
    \/ xpc = "render" /\ ScanSlide /\ UNCHANGED <<textVars, fillVars, extVars, renderVars, listVars, clockVars>>
    \/ xpc = "render" /\ UnclosedLoop /\ UNCHANGED <<textVars, fillVars, extVars, renderVars, listVars, clockVars>>
    \/ xpc = "render" /\ StartPlan /\ UNCHANGED <<textVars, fillVars, extVars, renderVars, listVars, clockVars>>
    \/ xpc = "render" /\ BuildSection /\ UNCHANGED <<textVars, fillVars, extVars, renderVars, listVars, clockVars>>
    \/ xpc = "render" /\ ReturnPlan /\ UNCHANGED <<textVars, fillVars, extVars, renderVars, listVars, clockVars>>
    \/ RenderEntry /\ UNCHANGED <<textVars, loopVars, fillVars, renderVars, listVars, clockVars>>
    \/ FinishRender /\ UNCHANGED <<textVars, loopVars, fillVars, renderVars, listVars, clockVars>>

SpecExtract == InitExtract /\ [][NextExtract]_vars

\* render_pptx on every document of the bounds
InitRender == IdleText /\ IdleLoops /\ IdleFill /\ IdleExtract /\ RenderInit /\ IdleList
    /\ IdleClock

NextRender ==
    \/ ProcessParagraph /\ UNCHANGED <<textVars, loopVars, fillVars, extVars, listVars, clockVars>>
    \/ AbortRender /\ UNCHANGED <<textVars, loopVars, fillVars, extVars, listVars, clockVars>>
    \/ SaveAndReturn /\ UNCHANGED <<textVars, loopVars, fillVars, extVars, listVars, clockVars>>

SpecRender == InitRender /\ [][NextRender]_vars

\* process_text_list and table mode on every list of texts of the bounds
InitList ==
    IdleText /\ IdleLoops /\ IdleFill /\ IdleExtract /\ IdleRender /\ ListInit
    /\ IdleClock

NextList ==
    \/ ProcessTable /\ UNCHANGED <<textVars, loopVars, fillVars, extVars, renderVars, clockVars>>
    \/ ProcessTextList /\ UNCHANGED <<textVars, loopVars, fillVars, extVars, renderVars, clockVars>>

SpecList == InitList /\ [][NextList]_vars

\* normal mode: process_text on a text, or render_pptx on a document
InitNormal ==
    /\ IdleLoops /\ IdleFill /\ IdleExtract /\ IdleList /\ IdleClock
    /\ \/ TextInit /\ IdleRender
       \/ IdleText /\ RenderInit

NextNormal ==
    \/ Replace /\ UNCHANGED <<loopVars, fillVars, extVars, renderVars, listVars, clockVars>>
    \/ ReturnText /\ UNCHANGED <<loopVars, fillVars, extVars, renderVars, listVars, clockVars>>
    \/ ProcessParagraph /\ UNCHANGED <<textVars, loopVars, fillVars, extVars, listVars, clockVars>>
    \/ AbortRender /\ UNCHANGED <<textVars, loopVars, fillVars, extVars, listVars, clockVars>>
    \/ SaveAndReturn /\ UNCHANGED <<textVars, loopVars, fillVars, extVars, listVars, clockVars>>

SpecNormal == InitNormal /\ [][NextNormal]_vars

\* the tags of a render, evaluated one after the other
InitClock ==
    IdleText /\ IdleLoops /\ IdleFill /\ IdleExtract /\ IdleRender /\ IdleList
    /\ ClockInit

NextClock ==
    EvaluateTag /\ UNCHANGED <<textVars, loopVars, fillVars, extVars, renderVars, listVars>>

SpecClock == InitClock /\ [][NextClock]_vars

\* the evaluator of parser.py on the expressions of the bounds
InitEval ==
    IdleText /\ IdleLoops /\ IdleFill /\ IdleExtract /\ IdleRender /\ IdleList
    /\ EvalInit

NextEval ==
    EvaluateTag /\ UNCHANGED <<textVars, loopVars, fillVars, extVars, renderVars, listVars>>

SpecEval == InitEval /\ [][NextEval]_vars

-----------------------------------------------------------------------------
(* pptx_renderer/tables.py: process_table_cell.  The cell has one          *)
(* paragraph; list_items holds its text, list_results what the column of   *)
(* the cell holds after the call, from the cell downwards, in a table      *)
(* with no row below the cell.                                             *)

\* the texts of a cell: those of ListTexts, bare and with spaces around
CellTexts ==
    ListTexts \cup {<<" ">> \o t \o <<" ">> : t \in ListTexts}

CellInit ==
    /\ \E t \in CellTexts : list_items = <<t>>
    /\ \E n \in 0..MaxUsers :
          list_kwargs = [context |-> ProgramOf(n), perm_user |-> NoUser,
                         as_float |-> FALSE, fail_if_not_float |-> FALSE]
    /\ list_results = None
    /\ tags_evaluated = 0
    /\ list_pc = "cell"

\* lines 47-105 with no row below the cell: the first item in the cell and
\* one cloned row for each of the others; the empty list empties the cell
fill_column_with_list(filled) ==
    IF filled.items = <<>> THEN List(<<EmptyStr>>) ELSE filled

\* lines 19-44
ProcessTableCell ==
    /\ list_pc = "cell"
    /\ IF get_matching_tags(Strip(list_items[1])) = 1
       THEN \E r \in {process_text_table(Strip(list_items[1]), list_kwargs.context,
                                         list_kwargs.perm_user)} :
               /\ list_results' = IF IsExc(r.value) THEN r.value
                                  ELSE IF r.value.k = "list"
                                  THEN fill_column_with_list(r.value)
                                  ELSE List(<<r.value>>)
               /\ tags_evaluated' = r.evaluated
               /\ list_pc' = "cell_table"
       ELSE \E r \in {process_text_normal(list_items[1], list_kwargs.context,
                                          list_kwargs.perm_user)} :
               /\ list_results' = IF IsExc(r.value) THEN r.value
                                  ELSE List(<<r.value>>)
               /\ tags_evaluated' = r.evaluated
               /\ list_pc' = "cell_normal"
    /\ UNCHANGED <<list_items, list_kwargs>>

\* process_table_cell on the cells of the bounds
InitCell ==
    IdleText /\ IdleLoops /\ IdleFill /\ IdleExtract /\ IdleRender /\ IdleClock
    /\ CellInit

NextCell ==
    ProcessTableCell /\ UNCHANGED <<textVars, loopVars, fillVars, extVars, renderVars, clockVars>>

SpecCell == InitCell /\ [][NextCell]_vars

-----------------------------------------------------------------------------
(* pptx_renderer/renderer.py lines 56-62: the cells of a table, row by row *)
(* and cell by cell, each handed to process_table_cell.  (src_row,         *)
(* src_col) is the cell the traversal stands on; table0 keeps the table of *)
(* the template.                                                           *)

\* the context of the render: a list with an item that holds a
\* placeholder, and a list of plain items
TableContext ==
    [notes |-> List(<<Str(<<"n1">>), Str(Tag(<<"user", ".", "name">>))>>),
     names |-> List(<<Str(<<"Ann">>), Str(<<"Ben">>)>>)] @@ FullContext

\* the rows of the template: one cell, or a cell beside a placeholder
TemplateRows ==
    { << Tag(<<"notes">>) >>, << Tag(<<"names">>) >>, << <<>> >>, << <<"x">> >>,
      << Tag(<<"notes">>), Tag(<<"user", ".", "name">>) >>,
      << <<>>, Tag(<<"count">>) >> }

\* the number of rows of the table of the template
MaxTableRows == 3

TraversalInit ==
    /\ table \in SeqsUpTo(TemplateRows, MaxTableRows) \ {<<>>}
    /\ table0 = table
    /\ src_row = 1 /\ src_col = 1
    /\ items = <<>> /\ remaining_items = <<>> /\ row_cursor = 0
    /\ fill_result = "running"
    /\ fpc = "cell"

\* tables.py lines 19-44 on the cell of the traversal, up to the call of
\* fill_column_with_list
VisitCell ==
    /\ fpc = "cell"
    /\ IF get_matching_tags(Strip(table[src_row][src_col])) = 1
       THEN \E r \in {process_text_table(Strip(table[src_row][src_col]),
                                         TableContext, NoUser).value} :
               IF IsExc(r)
               THEN /\ fill_result' = r.type
                    /\ fpc' = "done"
                    /\ UNCHANGED <<table, items>>
               ELSE IF r.k = "list"
               THEN /\ items' = [i \in 1..Len(r.items) |-> r.items[i].s]
                    /\ fpc' = "start"
                    /\ UNCHANGED <<table, fill_result>>
               ELSE /\ table' = [table EXCEPT ![src_row][src_col] = r.s]
                    /\ fill_result' = "ok"
                    /\ fpc' = "done"
                    /\ UNCHANGED items
       ELSE \E r \in {process_text_normal(table[src_row][src_col],
                                          TableContext, NoUser).value} :
               IF IsExc(r)
               THEN /\ fill_result' = r.type
                    /\ fpc' = "done"
                    /\ UNCHANGED <<table, items>>
               ELSE /\ table' = [table EXCEPT ![src_row][src_col] = r.s]
                    /\ fill_result' = "ok"
                    /\ fpc' = "done"
                    /\ UNCHANGED items
    /\ UNCHANGED <<table0, src_row, src_col, remaining_items, row_cursor, sheetVars>>

\* renderer.py lines 58-59: the next cell of the row, the next row of the
\* table as it stands now, or the end of the table
AdvanceCell ==
    /\ fpc = "done" /\ fill_result = "ok"
    /\ IF src_col < Len(table[src_row])
       THEN /\ src_col' = src_col + 1
            /\ fpc' = "cell"
            /\ UNCHANGED src_row
       ELSE IF src_row < Len(table)
       THEN /\ src_row' = src_row + 1
            /\ src_col' = 1
            /\ fpc' = "cell"
       ELSE /\ fpc' = "rendered"
            /\ UNCHANGED <<src_row, src_col>>
    /\ fill_result' = IF fpc' = "cell" THEN "running" ELSE fill_result
    /\ UNCHANGED <<table, table0, items, remaining_items, row_cursor, sheetVars>>

\* the traversal of the tables of the bounds
InitTable ==
    IdleText /\ IdleLoops /\ IdleExtract /\ IdleRender /\ IdleList /\ IdleClock
    /\ TraversalInit /\ IdleSheet

NextTable ==
    \/ VisitCell /\ UNCHANGED <<textVars, loopVars, extVars, renderVars, listVars, clockVars>>
    \/ SetFirstItem /\ UNCHANGED <<textVars, loopVars, extVars, renderVars, listVars, clockVars>>
    \/ FillExistingRow /\ UNCHANGED <<textVars, loopVars, extVars, renderVars, listVars, clockVars>>
    \/ AppendClones /\ UNCHANGED <<textVars, loopVars, extVars, renderVars, listVars, clockVars>>
    \/ AdvanceCell /\ UNCHANGED <<textVars, loopVars, extVars, renderVars, listVars, clockVars>>

SpecTable == InitTable /\ [][NextTable]_vars

-----------------------------------------------------------------------------
(* pptx_renderer/merger.py lines 21-70, one turn of the loop at a time.    *)
(* doc[1] is the paragraph as it stands, doc[2] the paragraph as it was    *)
(* handed over; cursor is the run the loop stands on.                      *)

\* the texts of the runs: literal text, a placeholder, and the two halves
\* of a placeholder
MergeRuns ==
    { <<"Hello">>, Tag(<<"user">>), <<"{", "{", " ", "user">>, <<" ", "}", "}">> }

\* the number of runs of the paragraph
MaxMergeRuns == 4

MergeInit ==
    /\ \E p \in SeqsUpTo(MergeRuns, MaxMergeRuns) \ {<<>>} : doc = <<p, p>>
    /\ cursor = 1
    /\ render_ctx \in RenderEnvs
    /\ acc = <<>>
    /\ saves = 0
    /\ result = None
    /\ rpc = "merge"

\* lines 23-70: one turn of the loop, on run `cursor`
MergeRun ==
    /\ rpc = "merge"
    /\ cursor <= Len(doc[1])
    /\ IF HasOpen(doc[1][cursor]) /\ ~HasClose(doc[1][cursor])
       THEN IF ClosingRun(doc[1], cursor) = 0
            THEN /\ rpc' = "raised"
                 /\ UNCHANGED <<doc, cursor, acc>>
            ELSE \E processed \in
                     {process_text(MergedText(doc[1], cursor, ClosingRun(doc[1], cursor)),
                                   render_ctx.context, render_ctx.request_user,
                                   render_ctx.check_permissions)} :
                    /\ doc' = [doc EXCEPT ![1] =
                                  RunsAfter(doc[1], cursor, ClosingRun(doc[1], cursor),
                                            processed)]
                    /\ acc' = acc \o processed.errs
                    /\ cursor' = cursor + 1
                    /\ rpc' = rpc
       ELSE \E processed \in
                {process_text(doc[1][cursor], render_ctx.context,
                              render_ctx.request_user,
                              render_ctx.check_permissions)} :
               /\ doc' = [doc EXCEPT ![1] = RunsAfter(doc[1], cursor, cursor, processed)]
               /\ acc' = acc \o processed.errs
               /\ cursor' = cursor + 1
               /\ rpc' = rpc
    /\ UNCHANGED <<render_ctx, saves, result>>

\* line 23: no run is left
MergeReturn ==
    /\ rpc = "merge"
    /\ cursor > Len(doc[1])
    /\ rpc' = "merged"
    /\ UNCHANGED <<doc, cursor, render_ctx, acc, saves, result>>

\* merge_runs_in_paragraph on the paragraphs of the bounds
InitMerge ==
    IdleText /\ IdleLoops /\ IdleFill /\ IdleExtract /\ IdleList /\ IdleClock
    /\ MergeInit

NextMerge ==
    \/ MergeRun /\ UNCHANGED <<textVars, loopVars, fillVars, extVars, listVars, clockVars>>
    \/ MergeReturn /\ UNCHANGED <<textVars, loopVars, fillVars, extVars, listVars, clockVars>>

SpecMerge == InitMerge /\ [][NextMerge]_vars

-----------------------------------------------------------------------------
(* Claims about process_text                                               *)

\* the placeholder re.sub hands to `replacer` next
AtTag == tpc # 0 /\ MatchClose(text, tpc) # 0

\* The tag evaluates to null or to the empty string.
TagIsEmpty == AtTag /\ TagValue(RawExpr(text, tpc), context) \in {None, EmptyStr}

TopLevelAbsent ==
    /\ AtTag
    /\ LET raw   == RawExpr(text, tpc)
           first == split_expression(raw)[1]
       IN  /\ Len(first) = 1
           /\ IsWord(first[1])
           /\ first[1] \notin DOMAIN context

\* C10: in normal mode, a placeholder whose top-level identifier is absent
\* from the context is replaced by the empty string and nothing is appended
\* to the error accumulator.
C10_MissingKeySilent ==
    [][TopLevelAbsent =>
          /\ output' = output \o Literal(text, tpc)
          /\ errors' = errors]_vars

\* the tokens only a denied record of program.users can have put in the output
DeniedToks(user) ==
    UNION {{Users[i].id, Users[i].attrs.email.s[1]} :
              i \in {j \in 1..Len(Users) : ~has_perm(user, Users[j])}}

\* the tag at hand goes through the collection program.users
AtCollectionTag ==
    /\ AtTag
    /\ "program" \in DOMAIN context
    /\ LET segs == split_expression(RawExpr(text, tpc))
       IN  /\ Len(segs) >= 2
           /\ segs[1] = <<"program">>
           /\ segs[2] = <<"users">>

\* C2: for every resolved collection and every non-null principal P, no
\* value derived from a record P may not view appears in the result: the
\* denied records are dropped, the permitted ones keep their order, and an
\* error is recorded for the denial.
C2_DeniedRecordsDropped ==
    [][(AtCollectionTag /\ check_permissions /\ request_user # NoUser) =>
          /\ \A i \in (Len(output) + 1)..Len(output') :
                output'[i] \notin DeniedToks(request_user)
          /\ DeniedToks(request_user) # {} => Len(errors') > Len(errors)]_vars

-----------------------------------------------------------------------------
(* Claims about process_loops                                              *)

\* process_loops has returned a plan and recorded no error
PlanReturned == lpc = "done" /\ loop_errors = <<>>

\* the plan entries of a section: those of its slides and of their copies
EntriesOf(section) ==
    {e \in 1..Len(slides_to_process) :
        LET slide == SlideOf(prs, slides_to_process[e].slide)
        IN  \E j \in 1..Len(section.slides) :
                section.slides[j] \in {slide.id, slide.copy_of}}

IsCopy(e) == SlideOf(prs, slides_to_process[e].slide).copy_of # 0

\* C3: for a well-formed loop over n >= 1 items whose section holds k
\* slides, the plan has exactly k*n entries for the section: the k original
\* slides for the first item and k*(n-1) duplicated slides for the others.
C3_LoopCardinality ==
    PlanReturned =>
        \A s \in 1..Len(lv.slide_sections) :
            LET section == lv.slide_sections[s]
            IN  IsLoopSection(section) =>
                LET k == Len(section.slides)
                    n == Len(section.loop_collection)
                    entries == EntriesOf(section)
                IN  /\ n >= 1
                    /\ Cardinality(entries) = k * n
                    /\ Cardinality({e \in entries : ~IsCopy(e)}) = k
                    /\ Cardinality({e \in entries : IsCopy(e)}) = k * (n - 1)
                    /\ \A e \in entries :
                          IsCopy(e) <=>
                              slides_to_process[e].extra_context.loop_number # Int(1)

\* a loop of two slides over two items has given four entries
C3_Witness ==
    /\ PlanReturned
    /\ Len(lv.slide_sections) = 1
    /\ IsLoopSection(lv.slide_sections[1])
    /\ Len(lv.slide_sections[1].slides) = 2
    /\ Len(lv.slide_sections[1].loop_collection) = 2
    /\ Len(slides_to_process) = 4

\* the deck of three slides: the loop start alone on slide 1, the body on
\* slide 2, the loop end alone on slide 3, and a team of two members
ThreeSlideDeck == Deck(<< <<TeamLoop>>, <<BodyShape>>, <<LoopEndShape>> >>)

ThreeSlideLoopDone ==
    /\ prs0 = ThreeSlideDeck
    /\ loop_context = TeamContext(List(People(2)))
    /\ loop_perm_user = NoUser
    /\ lpc = "done"

NoSentinel(slide) ==
    \A n \in 1..Len(slide.shapes) :
        ~is_loop_start(slide.shapes[n]) /\ ~is_loop_end(slide.shapes[n])

\* C4 (as the code has it): the three-slide deck with a collection of two
\* items yields six slides, three per item (the two slides that carried the
\* sentinels and the body), none of which contains a sentinel, with
\* loop_number/loop_count 1/2 on the first three and 2/2 on the last three.
C4_ThreeSlidesPerItem ==
    ThreeSlideLoopDone =>
        /\ loop_errors = <<>>
        /\ Len(slides_to_process) = 6
        /\ Len(prs) = 6
        /\ \A e \in 1..Len(slides_to_process) :
              LET entry == slides_to_process[e]
                  item  == IF e <= 3 THEN 1 ELSE 2
              IN  /\ entry.slide = prs[e].id
                  /\ entry.slide_number = e
                  /\ NoSentinel(prs[e])
                  /\ entry.extra_context.loop_number = Int(item)
                  /\ entry.extra_context.loop_count = Int(2)
                  /\ entry.extra_context.u = Person(item)

\* the plan of the three-slide deck has been returned
C4_Witness ==
    /\ ThreeSlideLoopDone
    /\ Len(slides_to_process) = 6
    /\ slides_to_process[4].extra_context.u = Person(2)

\* C4 as stated: the three-slide deck with a collection of two items yields
\* exactly two slides, one per item, without sentinels, with
\* loop_number/loop_count 1/2 on the first and 2/2 on the second.
C4_OneSlidePerItem ==
    ThreeSlideLoopDone =>
        /\ Len(slides_to_process) = 2
        /\ \A e \in 1..Len(slides_to_process) :
              /\ NoSentinel(SlideOf(prs, slides_to_process[e].slide))
              /\ slides_to_process[e].extra_context.loop_number = Int(e)
              /\ slides_to_process[e].extra_context.loop_count = Int(2)

\* the sections the slide of a plan entry belongs to
InLoopSection(e) ==
    \E s \in 1..Len(lv.slide_sections) :
        /\ IsLoopSection(lv.slide_sections[s])
        /\ e \in EntriesOf(lv.slide_sections[s])

LoopVariableOf(e) ==
    LET s == CHOOSE x \in 1..Len(lv.slide_sections) :
                 /\ IsLoopSection(lv.slide_sections[x])
                 /\ e \in EntriesOf(lv.slide_sections[x])
    IN  lv.slide_sections[s].loop_variable_name

\* the loop bindings are on the entries of the loop sections, and only there
BindingsOnlyInLoops ==
    \A e \in 1..Len(slides_to_process) :
        IF InLoopSection(e)
        THEN /\ "extra_context" \in DOMAIN slides_to_process[e]
             /\ DOMAIN slides_to_process[e].extra_context =
                    {LoopVariableOf(e), "loop_count", "loop_number"}
        ELSE DOMAIN slides_to_process[e] = {"slide", "slide_number"}

\* C8: the caller's context is unchanged by loop processing; the loop
\* bindings (the loop variable, loop_count, loop_number) live only in the
\* extra context of the entries of a loop section, and the entries of the
\* slides outside any loop, those after a closed loop included, carry none.
C8_ContextUntouched ==
    [][/\ loop_context' = loop_context
       /\ BindingsOnlyInLoops'
       /\ "loop_count" \notin DOMAIN loop_context'
       /\ "loop_number" \notin DOMAIN loop_context'
       /\ "u" \notin DOMAIN loop_context']_vars

\* a plan with a slide after a closed loop: the loop entries carry the
\* bindings, the entry of the slide after the loop carries none
C8_Witness ==
    /\ PlanReturned
    /\ Len(lv.slide_sections) = 2
    /\ IsLoopSection(lv.slide_sections[1])
    /\ ~IsLoopSection(lv.slide_sections[2])
    /\ Len(slides_to_process) >= 3
    /\ "extra_context" \in DOMAIN slides_to_process[1]
    /\ "extra_context" \notin DOMAIN slides_to_process[Len(slides_to_process)]
    /\ loop_context = TeamContext(List(People(2)))

-----------------------------------------------------------------------------
(* Claims about the column fill                                            *)

\* the rows below the source row that have a cell in its column, in order
TargetsBelow ==
    SelectSeq([r \in 1..(Len(table0) - src_row) |-> src_row + r],
              LAMBDA r : Len(table0[r]) >= src_col)

\* the row the j-th item (j >= 2) belongs in: the next row with a cell in
\* the column, or a clone appended after the rows of the table
RowOfItem(j) ==
    IF j - 1 <= Len(TargetsBelow) THEN TargetsBelow[j - 1]
    ELSE Len(table0) + (j - 1 - Len(TargetsBelow))

\* a non-empty cell stands where an item must be written
Blocked ==
    \E j \in 2..Len(items) :
        /\ j - 1 <= Len(TargetsBelow)
        /\ Strip(table0[TargetsBelow[j - 1]][src_col]) # <<>>

\* no cell that was non-empty before the fill, the source cell aside, has
\* another text
NonEmptyKept ==
    \A r \in 1..Len(table0) : \A c \in 1..Len(table0[r]) :
        (<<r, c>> # <<src_row, src_col>> /\ Strip(table0[r][c]) # <<>>)
            => table[r][c] = table0[r][c]

ItemsPlaced ==
    /\ table[src_row][src_col] = items[1]
    /\ \A j \in 2..Len(items) :
          /\ RowOfItem(j) <= Len(table)
          /\ table[RowOfItem(j)][src_col] = items[j]

\* the same for a worksheet column
SheetOccupied(v) == v # None /\ v # EmptyStr

SheetBlocked ==
    \E i \in 2..Len(processed_value_list) :
        SheetOccupied(CellAt(column0, cell_idx + i - 1))

SheetKept ==
    \A r \in 1..Len(column0) :
        (r # cell_idx /\ SheetOccupied(column0[r])) => column[r] = column0[r]

SheetPlaced ==
    \A i \in 1..Len(processed_value_list) :
        CellAt(column, cell_idx + i - 1) = processed_value_list[i]

\* C5: after a column fill of a list of n >= 1 items from a source cell,
\* the items occupy, in list order, the source cell and the next n-1 rows
\* that have a cell in the column (clones of the source row being appended
\* when the rows run out); no cell that was non-empty before the fill has
\* its text changed, and CellOverwrite is raised exactly when a non-empty
\* cell stands where an item must be written.
C5_ColumnFill ==
    /\ (fpc = "done" /\ Len(items) >= 1) =>
          /\ NonEmptyKept
          /\ IF Blocked THEN fill_result = "TableCellOverwriteError"
             ELSE fill_result = "ok" /\ ItemsPlaced
    /\ sheet_result \notin {"idle", "start"} =>
          /\ SheetKept
          /\ IF SheetBlocked THEN sheet_result = "CellOverwriteError"
             ELSE sheet_result = "ok" /\ SheetPlaced

-----------------------------------------------------------------------------
(* Claims on extract_context_keys                                          *)

ReportedKeys == keys.simple_fields \cup keys.object_fields

ErrorRecorded == loop_errors # <<>> \/ render_errors # <<>>

\* every template of Templates renders without an error when no key of the
\* context is left out, so an error of its render is the doing of the key
\* that was left out
CompleteContextRenders ==
    (xpc = "done" /\ prs0 \in Templates /\ missing_key = "") => ~ErrorRecorded

\* C6: the keys extract_context_keys reports for a template contain every
\* top-level context key whose absence makes the render of the template
\* record an error, the keys used only in the collection of a loop
\* directive or only in a $...$ sub-expression included
C6_ExtractorCoversRender ==
    (xpc = "done" /\ prs0 \in Templates /\ missing_key # "" /\ ErrorRecorded)
        => <<missing_key>> \in ReportedKeys

\* C7: extract_context_keys reports no reserved identifier and no loop
\* variable of a loop directive of the template, in simple_fields as in
\* object_fields
C7_NoReservedNoLoopVariable ==
    xpc \in {"render", "raised", "done"}
        => \A key \in ReportedKeys :
               key \notin KEYS_TO_IGNORE /\ key \notin LoopVariables(prs0)

-----------------------------------------------------------------------------
(* Claims on render_pptx                                                   *)

-----------------------------------------------------------------------------
(* Claims about table mode                                                 *)

TableReturned == list_pc = "returned"

\* the value of the only placeholder of the text table mode was called on
TableValue ==
    parse_formatted_tag(RawExpr(list_items[1], 1), list_kwargs.context,
                        list_kwargs.perm_user, 0)

\* the strings table mode is to return for the items xs
Expanded_Strings(xs) ==
    [i \in 1..Len(xs) |->
        Str(Literal(list_items[1], 1) \o PyStr(xs[i]) \o Suffix(list_items[1]))]

\* C11: on a text with exactly one placeholder, table mode returns one
\* string prefix + str(item) + suffix for each item of a list value, in the
\* order of the list (none for the empty list), and the one string
\* prefix + str(value) + suffix for a scalar; on a text with no placeholder
\* or more than one it raises ValueError and evaluates no tag; for the text
\* of test_mixed_text_table the strings are "User email: " and the email of
\* each user of the program
C11_TableMode ==
    TableReturned =>
        /\ get_matching_tags(list_items[1]) # 1
              => list_results = Exc("ValueError") /\ tags_evaluated = 0
        /\ (get_matching_tags(list_items[1]) = 1 /\ ~IsExc(TableValue))
              => IF TableValue.k = "list"
                 THEN list_results = List(Expanded_Strings(TableValue.items))
                 ELSE list_results = Str(Literal(list_items[1], 1)
                                           \o PyStr(TableValue)
                                           \o Suffix(list_items[1]))
        /\ list_items[1] = UserEmail \o EmailsTag
              => list_results =
                    List([i \in 1..Len(list_kwargs.context.program.m.users.items) |->
                            Str(UserEmail \o
                                list_kwargs.context.program.m.users.items[i]
                                    .attrs.email.s)])

\* table mode returned one string for each of the users of the program
C11_Witness ==
    /\ TableReturned
    /\ list_items[1] = UserEmail \o EmailsTag
    /\ Len(list_kwargs.context.program.m.users.items) = MaxUsers
    /\ list_results.k = "list" /\ Len(list_results.items) = MaxUsers

-----------------------------------------------------------------------------
(* Claims about normal mode                                                *)

\* the string a value stands for in the text: nothing for null and for the
\* empty string, the items joined with ", " for a list
ValueText(v) ==
    IF v = None \/ v = EmptyStr THEN <<>>
    ELSE IF v.k = "list"
    THEN Join([i \in 1..Len(SelectSeq(v.items, LAMBDA item : item # None)) |->
                 PyStr(SelectSeq(v.items, LAMBDA item : item # None)[i])],
              <<",", " ">>)
    ELSE PyStr(v)

PermissionsChecked == check_permissions /\ request_user # NoUser

\* the paragraph at hand has no placeholder in the text of its runs
NoPlaceholderAhead ==
    /\ rpc = "run"
    /\ cursor <= Len(doc)
    /\ MatchClose(MergedText(doc[cursor], 1, Len(doc[cursor])), 1) = 0

\* C12: normal mode copies the text outside the placeholders as it is and
\* puts the value of each placeholder in its place, a list value joined
\* with ", "; a text without a placeholder is returned unchanged, and
\* processing a paragraph without a placeholder leaves the text of every
\* run as it was
C12_NormalModeKeepsText ==
    [][/\ AtTag =>
             /\ Len(output') >= Len(output) + Len(Literal(text, tpc))
             /\ SubSeq(output', 1, Len(output) + Len(Literal(text, tpc)))
                   = output \o Literal(text, tpc)
             /\ ~PermissionsChecked =>
                   output' = output \o Literal(text, tpc)
                       \o ValueText(TagValue(RawExpr(text, tpc), context))
       /\ (tpc # 0 /\ ~AtTag) => output' = output \o SubSeq(text, tpc, Len(text))
       /\ (tpc = 1 /\ ~AtTag) => output' = text
       /\ NoPlaceholderAhead => doc' = doc /\ acc' = acc]_vars

\* a text with literal text before a placeholder for a list, processed: the
\* literal text is there and the emails are joined
C12_Witness ==
    /\ text = <<"Hello", ",", " ">> \o Tag(<<"program", ".", "users", ".", "email">>)
    /\ context = FullContext
    /\ ~PermissionsChecked
    /\ tpc = 0
    /\ output = <<"Hello", ",", " ", "alice", "@", "x", ",", " ",
                  "bob", "@", "x", ",", " ", "deny", "@", "x">>


\* some "{{" of the text has no "}}" after it
Dangling(t) ==
    \E p \in 1..(Len(t) - 1) :
        /\ t[p] = "{" /\ t[p + 1] = "{"
        /\ FindPair(t, "}", "}", p + 2) = 0

\* the text of the paragraph under the cursor, its runs put together
ParagraphText == MergedText(doc[cursor], 1, Len(doc[cursor]))

\* C13: processing a paragraph raises UnterminatedTag exactly when some
\* "{{" of the concatenated text of its runs has no "}}" after it, wherever
\* that "{{" stands in its run
C13_RaisesIffDangling ==
    [][(rpc = "run" /\ cursor <= Len(doc)) =>
           ((rpc' = "raised") <=> Dangling(ParagraphText))]_vars


\* the tag is the reserved identifier `now`, with or without a format
IsNowTag(expr) == expr # <<>> /\ Head(expr) = "now"

\* C14: `now` is sampled once per render: two `now` tags of the same render
\* (written the same way) resolve to the same timestamp
C14_NowSampledOnce ==
    \A i, j \in 1..Len(tag_values) :
        (IsNowTag(tag_values[i].expr) /\ tag_values[i].expr = tag_values[j].expr)
            => tag_values[i].value = tag_values[j].value


-----------------------------------------------------------------------------
(* Claims about permissions                                                *)

\* C15: with a null principal the permission checks are off: each
\* placeholder is replaced by the text of its whole value, no element of a
\* list left out and no record emptied, and an error is recorded only for
\* a value that is null or empty, never for a permission
C15_NullPrincipalUnchecked ==
    [][(AtTag /\ request_user = NoUser) =>
          /\ output' = output \o Literal(text, tpc)
                           \o ValueText(TagValue(RawExpr(text, tpc), context))
          /\ errors' = IF TagIsEmpty THEN Append(errors, RawExpr(text, tpc))
                       ELSE errors]_vars

\* the list of the records of the program, rendered whole for a null
\* principal although the checks were asked for
C15_Witness ==
    /\ text = Tag(<<"program", ".", "users">>)
    /\ context = FullContext
    /\ request_user = NoUser /\ check_permissions
    /\ tpc = 0
    /\ output = <<"Alice", ",", " ", "Bob", ",", " ", "DenyUser">>
    /\ errors = <<>>


-----------------------------------------------------------------------------
(* Claims about the first pass of process_loops                            *)

\* the first pass stands before a slide
AtSlide == lpc = "scan" /\ lv.i <= Len(prs)

\* the numbers of loop-start and loop-end shapes on the slide ahead
StartsAhead ==
    Cardinality({n \in 1..Len(prs[lv.i].shapes) : is_loop_start(prs[lv.i].shapes[n])})
EndsAhead ==
    Cardinality({n \in 1..Len(prs[lv.i].shapes) : is_loop_end(prs[lv.i].shapes[n])})

\* the collection of the first loop start of the slide ahead resolves
CollectionAheadResolves ==
    \E n \in 1..Len(prs[lv.i].shapes) :
        /\ is_loop_start(prs[lv.i].shapes[n])
        /\ get_collection_from_collection_tag(
               extract_loop_directive(prs[lv.i].shapes[n]).collection,
               loop_context, loop_perm_user, 0).error = ""

\* process_loops ends with a new error and an empty plan
EndsInError ==
    /\ Len(loop_errors') > Len(loop_errors)
    /\ lpc' = "done"
    /\ slides_to_process' = <<>>

\* C16: in the first pass a loop start met inside a loop, and the end of
\* the deck reached inside a loop, each record an error and leave the plan
\* empty; the end of a well-formed loop brings the pass back outside, where
\* the start of a later loop of the same deck is accepted
C16_FirstPassMachine ==
    [][/\ (AtSlide /\ lv.in_loop /\ StartsAhead >= 1) => EndsInError
       /\ (lpc = "scan" /\ lv.i > Len(prs) /\ lv.in_loop) => EndsInError
       /\ (AtSlide /\ lv.in_loop /\ StartsAhead = 0 /\ EndsAhead = 1) =>
              /\ ~lv'.in_loop
              /\ loop_errors' = loop_errors
              /\ lpc' = "scan"
              /\ Len(lv'.slide_sections) = Len(lv.slide_sections) + 1
              /\ IsLoopSection(lv'.slide_sections[Len(lv'.slide_sections)])
       /\ (AtSlide /\ ~lv.in_loop /\ StartsAhead = 1 /\ EndsAhead = 0
              /\ CollectionAheadResolves) =>
              /\ lv'.in_loop
              /\ loop_errors' = loop_errors
              /\ lpc' = "scan"]_vars

\* a deck with two loops one after the other: the plan is returned without
\* error and holds the entries of both
C16_Witness ==
    /\ PlanReturned
    /\ Len(lv.slide_sections) = 2
    /\ IsLoopSection(lv.slide_sections[1])
    /\ IsLoopSection(lv.slide_sections[2])
    /\ Len(lv.slide_sections[1].slides) = 2
    /\ Len(slides_to_process) = 3 * Len(lv.slide_sections[1].loop_collection)
    /\ Len(slides_to_process) = 6


\* an error is recorded for the slide ahead
ErrorForSlideAhead ==
    \E e \in (Len(loop_errors) + 1)..Len(loop_errors') :
        loop_errors'[e].slide = lv.i

\* C17: a slide with more than one sentinel shape (two loop starts, two
\* loop ends, or a loop start and a loop end) has an error recorded for it
C17_OneSentinelPerSlide ==
    [][(AtSlide /\ StartsAhead + EndsAhead > 1) => ErrorForSlideAhead]_vars


\* the first loop-start shape of the slide ahead
FirstStartAhead ==
    CHOOSE n \in 1..Len(prs[lv.i].shapes) :
        /\ is_loop_start(prs[lv.i].shapes[n])
        /\ \A m \in 1..(n - 1) : ~is_loop_start(prs[lv.i].shapes[m])

\* the collection of that loop start, evaluated against the base context
CollectionAhead ==
    get_collection_from_collection_tag(
        extract_loop_directive(prs[lv.i].shapes[FirstStartAhead]).collection,
        loop_context, loop_perm_user, 0)

\* the loop sections of the first pass
LoopSections ==
    {s \in 1..Len(lv.slide_sections) : IsLoopSection(lv.slide_sections[s])}

\* C18: the collection of a loop is evaluated once, against the base
\* context, when the loop start is met, and never again: a slide with a
\* loop start adds one evaluation, any other slide and the second pass add
\* none, and the section holds the items of that evaluation; a collection
\* that does not resolve, is null, is not iterable or is empty ends the
\* call with its error and an empty plan, so no loop section is empty
C18_CollectionEvaluatedOnce ==
    [][/\ lv'.collections_evaluated =
             lv.collections_evaluated
                 + (IF AtSlide /\ StartsAhead >= 1 THEN 1 ELSE 0)
       /\ (AtSlide /\ StartsAhead = 1 /\ ~lv.in_loop /\ CollectionAhead.error = "") =>
              /\ lv'.in_loop \/ EndsAhead >= 1
              /\ lv'.in_loop => lv'.loop_collection = CollectionAhead.collection
              /\ (~lv'.in_loop /\ lpc' = "scan") =>
                     lv'.slide_sections[Len(lv'.slide_sections)].loop_collection
                         = CollectionAhead.collection
       /\ (AtSlide /\ StartsAhead >= 1 /\ CollectionAhead.error # "") =>
              /\ EndsInError
              /\ loop_errors'[Len(loop_errors')] = SlideError(lv.i, CollectionAhead.error)
       /\ \A s \in LoopSections' : lv'.slide_sections[s].loop_collection # <<>>
       /\ (lpc' = "done" /\ loop_errors' = <<>>) =>
              lv'.collections_evaluated = Cardinality(LoopSections')]_vars

\* a loop over an empty collection: one evaluation, its error, no plan
C18_Witness ==
    /\ lpc = "done"
    /\ loop_context = TeamContext(List(<<>>))
    /\ loop_errors = <<SlideError(1, "is empty")>>
    /\ lv.collections_evaluated = 1
    /\ slides_to_process = <<>>


-----------------------------------------------------------------------------
(* Claims about the second pass of process_loops                           *)

\* the number of plan entries of a section
SectionSize(section) ==
    IF IsLoopSection(section)
    THEN Len(section.slides) * Len(section.loop_collection)
    ELSE Len(section.slides)

\* the number of plan entries before those of section s
RECURSIVE EntriesBefore(_)
EntriesBefore(s) ==
    IF s = 1 THEN 0
    ELSE EntriesBefore(s - 1) + SectionSize(lv.slide_sections[s - 1])

\* the sections whose entries the second pass has built
BuiltSections ==
    IF lpc \in {"build", "done"}
    THEN {s \in LoopSections : s < lv.section}
    ELSE {}

\* the slide of the entry is the j-th slide of the section (first item) or
\* a copy of it (later items)
IsSlideOf(entry, section, i, j) ==
    IF i = 1 THEN entry.slide = section.slides[j]
    ELSE SlideOf(prs, entry.slide).copy_of = section.slides[j]

\* C19: the entries of a loop over the items c_1..c_n with the slides
\* s_1..s_k stand in the order (c_1,s_1)..(c_1,s_k),(c_2,s_1)..(c_n,s_k);
\* the entry of (c_i, s_j) carries {var: c_i, loop_count: n,
\* loop_number: i}, so loop_number lies in 1..loop_count and never
\* decreases within the section
C19_ItemMajorOrder ==
    \A s \in BuiltSections :
        LET section == lv.slide_sections[s]
            k == Len(section.slides)
            n == Len(section.loop_collection)
            first == EntriesBefore(s)
        IN  /\ Len(slides_to_process) >= first + k * n
            /\ \A i \in 1..n : \A j \in 1..k :
                  LET entry == slides_to_process[first + (i - 1) * k + j]
                  IN  /\ entry.extra_context =
                            (section.loop_variable_name :> section.loop_collection[i])
                                @@ [loop_count |-> Int(n), loop_number |-> Int(i)]
                      /\ IsSlideOf(entry, section, i, j)
                      /\ entry.slide_number = first + (i - 1) * k + j
                      /\ entry.extra_context.loop_number.n >= 1
                      /\ entry.extra_context.loop_number.n
                            <= entry.extra_context.loop_count.n
            /\ \A e \in (first + 1)..(first + k * n - 1) :
                  slides_to_process[e].extra_context.loop_number.n
                      <= slides_to_process[e + 1].extra_context.loop_number.n

\* a loop of two slides over two items: the four entries stand item by item
C19_Witness ==
    /\ PlanReturned
    /\ Len(lv.slide_sections) = 2
    /\ ~IsLoopSection(lv.slide_sections[1])
    /\ IsLoopSection(lv.slide_sections[2])
    /\ Len(lv.slide_sections[2].slides) = 2
    /\ Len(slides_to_process) = 5
    /\ slides_to_process[2].extra_context.u = Person(1)
    /\ slides_to_process[3].extra_context.u = Person(1)
    /\ slides_to_process[4].extra_context.u = Person(2)
    /\ slides_to_process[5].extra_context.u = Person(2)
    /\ slides_to_process[5].extra_context.loop_number = Int(2)


-----------------------------------------------------------------------------
(* Claims about the merge of runs                                          *)

\* the render stands before a paragraph
AtParagraph == rpc = "run" /\ cursor <= Len(doc)

\* a run of the paragraph ahead has a "{{" with no "}}" after it in the run,
\* and the paragraph has a "}}" after every "{{"
SplitPlaceholderAhead ==
    /\ AtParagraph
    /\ \E r \in 1..Len(doc[cursor]) : Dangling(doc[cursor][r])
    /\ ~Dangling(ParagraphText)

\* C20: a run whose "{{" has no "}}" after it in the same run is merged
\* with the runs that follow, also when the run holds an earlier complete
\* placeholder: the paragraph comes out with fewer runs and with no "{{"
\* left in its text
C20_SplitPlaceholderMerged ==
    [][SplitPlaceholderAhead =>
          /\ rpc' = "run"
          /\ Len(doc'[cursor]) < Len(doc[cursor])
          /\ \A r \in 1..Len(doc'[cursor]) : ~HasOpen(doc'[cursor][r])]_vars


-----------------------------------------------------------------------------
(* Claims about the evaluator of parser.py                                 *)

\* the value of an expression in the context of the render
ValueOf(expr) == parse_formatted_tag(expr, TagContext, NoUser, 0)

\* a filter on the list of the users of the program, and the same filter
\* on the queryable collection of the same users
IsListFilterTag(expr) ==
    Len(expr) > 4 /\ SubSeq(expr, 1, 4) = <<"program", ".", "users", "[">>
QueryableTwin(expr) == <<"members">> \o SubSeq(expr, 4, Len(expr))

\* C21: the literal of a filter condition is parsed the same way on both
\* paths, so a [k=v] filter gives the same result on a plain list and on a
\* queryable collection that holds the same records
C21_SameFilterBothPaths ==
    \A i \in 1..Len(tag_values) :
        IsListFilterTag(tag_values[i].expr) =>
            tag_values[i].value = ValueOf(QueryableTwin(tag_values[i].expr))


\* a call of the method of the object `scaler` with literal arguments
IsLiteralCall(expr) ==
    /\ Len(expr) > 4
    /\ SubSeq(expr, 1, 4) = <<"scaler", ".", "scale", "(">>
    /\ ~HasTok(expr, "$")

\* C22: every argument of a call is taken as a literal: a call with an
\* integer or a float argument is split as one segment, the method is
\* invoked and no BadTag is raised
C22_CallArgumentsAreLiterals ==
    \A i \in 1..Len(tag_values) :
        IsLiteralCall(tag_values[i].expr) =>
            /\ Len(split_expression(tag_values[i].expr)) = 2
            /\ tag_values[i].value = TagContext.scaler.attrs.scale.ret

\* an expression that names an attribute of a record or mapping of the
\* context
IsAttributeTag(expr) ==
    /\ Len(expr) = 3 /\ expr[2] = "." /\ IsWord(expr[3])
    /\ expr[1] \in DOMAIN TagContext
    /\ TagContext[expr[1]].k \in {"obj", "dict"}

\* the record or mapping the last segment is resolved on, and its names
Holder(expr) == TagContext[expr[1]]
NamesOf(holder) ==
    IF holder.k = "dict" THEN DOMAIN holder.m ELSE DOMAIN holder.attrs
Held(holder, name) ==
    IF holder.k = "dict" THEN holder.m[name] ELSE holder.attrs[name]

\* C23: a segment that names an attribute absent from the current record
\* or mapping gives MissingData; an attribute that is present with the
\* value null gives the empty substitution and no MissingData
C23_AbsentIsNotNull ==
    \A i \in 1..Len(tag_values) :
        IsAttributeTag(tag_values[i].expr) =>
            LET expr   == tag_values[i].expr
                holder == Holder(expr)
                name   == expr[Len(expr)]
            IN  /\ name \notin NamesOf(holder) =>
                      tag_values[i].value = Exc("MissingData")
                /\ (name \in NamesOf(holder) /\ Held(holder, name) = None) =>
                      tag_values[i].value = EmptyStr

\* C24: an expression with a segment that is empty or made of "#" and "%"
\* only raises BadTag, wherever the segment stands
C24_BadSegmentAnywhere ==
    \A i \in 1..Len(tag_values) :
        (/\ ~HasTok(tag_values[i].expr, "$")
         /\ \E n \in 1..Len(split_expression(ValueExpr(tag_values[i].expr))) :
               BadSegment(split_expression(ValueExpr(tag_values[i].expr))[n]))
            => tag_values[i].value = Exc("BadTag")

\* the text handed on to the brace check and the segment parser
Substituted(expr) == substitute_inner_tags(expr, TagContext, NoUser, 0)

\* C26: after the sub-expressions are resolved the text holds no $...$
\* span, whatever the strings of the resolved values are
C26_NoSubExpressionLeft ==
    \A i \in 1..Len(tag_values) :
        ~IsExc(Substituted(tag_values[i].expr)) =>
            Count(Substituted(tag_values[i].expr).s, "$") < 2


\* process_loops has returned and an error stands in the error list
ReturnedWithError == lpc = "done" /\ loop_errors # <<>>

\* C27: whenever process_loops has recorded an error, the plan it returns
\* is empty, whatever the condition that recorded it
C27_ErrorMeansEmptyPlan ==
    ReturnedWithError => slides_to_process = <<>>


-----------------------------------------------------------------------------
(* Claims about process_table_cell                                         *)

CellProcessed == list_pc \in {"cell_table", "cell_normal"}

\* the trimmed text of the cell is one placeholder and nothing else
IsOnlyPlaceholder(t) ==
    /\ get_matching_tags(t) = 1
    /\ Literal(t, 1) = <<>>
    /\ Suffix(t) = <<>>

\* the column of the cell has grown by cloned rows
ColumnGrown == ~IsExc(list_results) /\ Len(list_results.items) > 1

\* C25: a cell is evaluated in table mode exactly when its trimmed text is
\* one placeholder and nothing else; a cell with one placeholder and
\* literal text is processed in normal mode and never expands
C25_TableModeIffOnlyPlaceholder ==
    CellProcessed =>
        /\ list_pc = "cell_table" <=> IsOnlyPlaceholder(Strip(list_items[1]))
        /\ (/\ get_matching_tags(Strip(list_items[1])) = 1
            /\ ~IsOnlyPlaceholder(Strip(list_items[1])))
               => list_pc = "cell_normal" /\ ~ColumnGrown

-----------------------------------------------------------------------------
(* Claims about the fill of a column                                       *)

\* fill_column_with_list has ended on a list of one item
OneItemFilled == fpc = "done" /\ Len(items) = 1

\* C28: a column fill with a list of one item writes the item to the
\* source cell and nothing else: no error comes from the rows below, which
\* keep their cells, and the table keeps its number of rows
C28_OneItemTouchesSourceOnly ==
    OneItemFilled =>
        /\ fill_result = "ok"
        /\ table = [table0 EXCEPT ![src_row][src_col] = items[1]]

-----------------------------------------------------------------------------
(* Claims about the traversal of a table                                   *)

\* the cell the traversal stands on holds text the render wrote from a
\* value of the context: it is not the text of the template
WrittenFromContext ==
    /\ fpc = "cell"
    /\ \/ src_row > Len(table0)
       \/ table[src_row][src_col] # table0[src_row][src_col]

\* C29: text written from the values of the context is not evaluated
\* again later in the render: an item of a list that holds a placeholder,
\* written by the fill of a column into a later or cloned row, is left as
\* it is when the traversal comes to its cell
C29_WrittenTextNotEvaluated ==
    [][ WrittenFromContext =>
            /\ fpc' # "start"
            /\ fill_result' \in {"running", "ok"}
            /\ table'[src_row][src_col] = table[src_row][src_col] ]_vars

-----------------------------------------------------------------------------
(* Claims about the loop of merge_runs_in_paragraph                        *)

\* the loop stands on a run
MergeAhead == rpc = "merge" /\ cursor <= Len(doc[1])

\* the last run of the merge that starts at the run of the loop: the run
\* itself when none starts
LastMerged ==
    IF HasOpen(doc[1][cursor]) /\ ~HasClose(doc[1][cursor])
    THEN ClosingRun(doc[1], cursor)
    ELSE cursor

\* the text the turn hands to process_text
TextOfTurn == MergedText(doc[1], cursor, LastMerged)

\* the runs the loop has still to take
RunsLeft == Len(doc[1]) + 1 - cursor

\* C30: the loop over the runs of a paragraph ends (every turn leaves fewer
\* runs to take, and it stops when none is left) and keeps the order of
\* the runs: a turn that merges the runs i..j puts the processed text of
\* their concatenation into run i, removes the runs i+1..j and no other,
\* leaves the runs before i and after j as they are, and goes on with the
\* run after run i, so that each run left is processed once and the
\* output of a turn is never scanned again
C30_MergeKeepsOrder ==
    [][ MergeAhead =>
          \/ rpc' = "raised"
          \/ /\ rpc' = "merge"
             /\ RunsLeft' < RunsLeft
             /\ cursor' = cursor + 1
             /\ Len(doc'[1]) = Len(doc[1]) - (LastMerged - cursor)
             /\ SubSeq(doc'[1], 1, cursor - 1) = SubSeq(doc[1], 1, cursor - 1)
             /\ doc'[1][cursor] =
                   process_text(TextOfTurn, render_ctx.context,
                                render_ctx.request_user,
                                render_ctx.check_permissions).out
             /\ SubSeq(doc'[1], cursor + 1, Len(doc'[1])) =
                   SubSeq(doc[1], LastMerged + 1, Len(doc[1])) ]_vars

\* the two halves of a placeholder between two runs of text were merged:
\* three runs are left, the text runs as they were
C30_Witness ==
    /\ rpc = "merged"
    /\ doc[2] = << <<"Hello">>, <<"{", "{", " ", "user">>, <<" ", "}", "}">>,
                   <<"Hello">> >>
    /\ doc[1] = << <<"Hello">>, <<"Alice">>, <<"Hello">> >>

=============================================================================
